---- MODULE Spec2Model ----
(***************************************************************************)
(* Echo Dashboard v2.0: the API server's write routes with their           *)
(* middleware chain (authMiddleware, epistemicHygieneMiddleware,           *)
(* validateDataScope) over the relational store, and the in-memory layer   *)
(* classes ReasoningProvenanceLayer, PurposeDriftSentinel,                 *)
(* LaggedOutcomeAttribution, QuestionEntropyMonitor and ObserverLoadIndex.  *)
(*                                                                         *)
(* Numbers: timestamps are milliseconds; confidenceWeight inputs are       *)
(* thousandths (950 = 0.95) and stored DECIMAL(3,2) values are hundredths; *)
(* correctionRate and contradictionExposure are hundredths.                *)
(***************************************************************************)
EXTENDS Integers, Sequences, FiniteSets, TLC

\* ------------------------------------------------------------------ bounds
\* request slots that can be in flight at once
MaxInFlight == 2
\* requests the server receives in one run
MaxRequests == 2
\* milliseconds the clock can be past a minute mark
MaxMs == 1
\* largest concurrent_audits of a row already in the store at start (such a row
\* holds this value or one less)
MaxInitConcurrent == 3
\* frames the ReasoningProvenanceLayer records
MaxFrames == 4
\* frames a ReasoningProvenanceLayer already in use has recorded, and the frames
\* it records on top of them
RecordedFrames == 30
MaxLaterFrames == 2
\* purposes registered with the PurposeDriftSentinel
MaxPurposes == 2
\* usage events recorded by the PurposeDriftSentinel, over all purposes
MaxEvents == 11
\* usage events recorded on top of those of a sentinel already in use
MaxLaterEvents == 3
\* outcomes tracked by the LaggedOutcomeAttribution engine
MaxOutcomes == 9
\* trackOutcome calls when the dates come in any order
MaxDatedOutcomes == 3
\* questions registered with the QuestionEntropyMonitor
MaxQuestions == 21
\* questions a QuestionEntropyMonitor already in use has registered, and the
\* questions it registers on top of them
RecordedQuestions == 18
MaxLaterQuestions == 3
\* days between two readings of the layer classes' clock
TickDays == 8
\* updateObserverLoad calls made on the ObserverLoadIndex
MaxUpdates == 3
\* audits an observer of an ObserverLoadIndex already in use has reviewed, and
\* the updateObserverLoad calls made on top of them
RecordedAudits == 24
MaxLaterUpdates == 2
\* the last instant of the PurposeDriftSentinel's clock
MaxDate == 1

\* ------------------------------------------------------- program constants
MAX_CONCURRENT_AUDITS == [observer |-> 2, analyst |-> 3, admin |-> 5]
MAX_CONFIDENCE_WEIGHT == 950
MsPerMinute == 60000
CooldownMs == 24 * 60 * 60 * 1000

\* a JSON field that is absent (undefined), and the SQL NULL of a timestamp
MISSING == "undefined"
NULL == -1

\* ------------------------------------------------------------- input sets
NoToken == "none"
BadToken == "forged"
\* the role claim carried by each user's signed token
RoleOf(u) == CASE u = "ana" -> "analyst" [] u = "adm" -> "admin" [] OTHER -> "observer"

ObserverIds == {"ana", "adm"}

\* the instants the clock takes: the first milliseconds of the run, of the last
\* minute of its first 24 hours, and of the minute after them
Instants ==
  {base + k : base \in {0, CooldownMs - MsPerMinute, CooldownMs}, k \in 0..MaxMs}

ValidProvenances ==
  {[dataScope |-> ds, evidenceType |-> "direct", origin |-> "sensor"] :
      ds \in {"observed", "simulated"}}
InvalidProvenances ==
  {[dataScope |-> "guessed", evidenceType |-> "direct", origin |-> "sensor"],
   [dataScope |-> "observed", evidenceType |-> MISSING, origin |-> "sensor"],
   [dataScope |-> "simulated", evidenceType |-> "direct", origin |-> "   "]}
Provenances == ValidProvenances \cup InvalidProvenances

Num(v) == [kind |-> "number", val |-> v]
NoNum == [kind |-> "undefined", val |-> 0]
LowLoad == <<0, 0>>
CriticalLoad == <<100, 100>>

Body(p, cw, oid, load) ==
  [dataScope |-> p.dataScope, evidenceType |-> p.evidenceType, origin |-> p.origin,
   confidenceWeight |-> cw, observerId |-> oid,
   correctionRate |-> load[1], contradictionExposure |-> load[2],
   auditsReviewed |-> 0, decisionDate |-> 0, benefitRealizedDate |-> 0,
   purposeId |-> MISSING]

Observed == [dataScope |-> "observed", evidenceType |-> "direct", origin |-> "sensor"]
Probe == [dataScope |-> "guessed", evidenceType |-> "direct", origin |-> "sensor"]

\* rpl/track bodies: a confidenceWeight at the cap under every provenance, one
\* above the cap under the valid ones, and one body without confidenceWeight
RplBodies ==
  {Body(p, Num(950), "ana", LowLoad) : p \in Provenances}
  \cup {Body(p, Num(951), "ana", LowLoad) : p \in ValidProvenances}
  \cup {Body(Observed, NoNum, "ana", LowLoad)}
PlainBodies == {Body(p, NoNum, "ana", LowLoad) : p \in Provenances}
\* loa/track-outcome bodies: decisionDate and benefitRealizedDate are hours; a
\* benefit on the day of the decision under every provenance, and under a valid
\* provenance one 200 days and 12 hours later and one 12 hours before the
\* decision
HoursPerDay == 24
LoaBodies ==
  PlainBodies
  \cup {[Body(Observed, NoNum, "ana", LowLoad)
          EXCEPT !.benefitRealizedDate = 200 * HoursPerDay + 12],
         [Body(Observed, NoNum, "ana", LowLoad) EXCEPT !.decisionDate = 12]}
\* oli/update-load bodies: a rested observer under every provenance, an
\* exhausted one under a valid provenance, and one with 25 audits reviewed, a
\* correctionRate of 0.55 and a contradictionExposure of 0.75
StrainedLoad == <<55, 75>>
OliBodies ==
  {Body(p, NoNum, "ana", LowLoad) : p \in Provenances}
  \cup {Body(Observed, NoNum, "ana", CriticalLoad)}
  \cup {[Body(Observed, NoNum, "ana", StrainedLoad) EXCEPT !.auditsReviewed = 25]}

\* the requests sent to a route: every body under the tokens of `users`, and one
\* body under the tokens authMiddleware turns away
Requests(users, bodies) ==
  (users \X bodies)
  \cup ({NoToken, BadToken, "obs"} \X {Body(Probe, NoNum, "ana", LowLoad)})

\* ------------------------------------------------------------------ state
VARIABLES
  clock,             \* wall clock of the server and the database
  observer_metrics,  \* table observer_metrics, keyed by observer_id
  reasoning_frames,  \* table reasoning_frames
  questions,         \* table questions
  lagged_outcomes,   \* table lagged_outcomes
  usage_events,      \* table usage_events
  system_purposes,   \* table system_purposes
  drift_alerts,      \* table drift_alerts
  resilience_scores, \* table resilience_scores
  req,               \* the requests in flight, one per slot
  nreq,              \* requests received so far
  resp,              \* the response sent last
  frames,            \* ReasoningProvenanceLayer.frames, in insertion order
  dominanceAlerts,   \* ReasoningProvenanceLayer.dominanceAlerts
  frameworkRotationQueue, \* ReasoningProvenanceLayer.frameworkRotationQueue
  purposes,          \* PurposeDriftSentinel.purposes
  usageEvents,       \* PurposeDriftSentinel.usageEvents
  driftAlerts,       \* PurposeDriftSentinel.driftAlerts
  systemPaused,      \* PurposeDriftSentinel.systemPaused
  outcomes,          \* LaggedOutcomeAttribution.outcomes, in insertion order
  lagAlerts,         \* LaggedOutcomeAttribution.lagAlerts
  beneficiaryPatterns, \* LaggedOutcomeAttribution.beneficiaryPatterns
  questionRegistry,  \* QuestionEntropyMonitor.questionRegistry
  entropyAlerts,     \* QuestionEntropyMonitor.entropyAlerts
  suppressedQuestions, \* QuestionEntropyMonitor.suppressedQuestions
  observers,         \* ObserverLoadIndex.observers
  loadAlerts,        \* ObserverLoadIndex.loadAlerts
  cooldownQueue,     \* ObserverLoadIndex.cooldownQueue
  ret                \* the layer call made last and what it returned

\* the tables no route writes
registers == <<system_purposes, drift_alerts, resilience_scores>>
tables ==
  <<observer_metrics, reasoning_frames, questions, lagged_outcomes, usage_events, registers>>
server == <<clock, tables, req, nreq, resp>>
rplLayer == <<frames, dominanceAlerts, frameworkRotationQueue>>
pdsLayer == <<purposes, usageEvents, driftAlerts, systemPaused>>
loaLayer == <<outcomes, lagAlerts, beneficiaryPatterns>>
qemLayer == <<questionRegistry, entropyAlerts, suppressedQuestions>>
oliLayer == <<observers, loadAlerts, cooldownQueue>>
layers == <<rplLayer, pdsLayer, loaLayer, qemLayer, oliLayer, ret>>
vars == <<server, layers>>

Slots == 1..MaxInFlight

NoRow ==
  [present |-> FALSE, concurrent_audits |-> 0, cooldown_until |-> NULL,
   fatigue_risk |-> "low", audits_reviewed |-> 0,
   correction_rate |-> 0, contradiction_exposure |-> 0,
   data_scope |-> "observed", evidence_type |-> "direct", origin |-> "seed"]
SeedRow(c) == [NoRow EXCEPT !.present = TRUE, !.concurrent_audits = c]

NoBody == Body([dataScope |-> MISSING, evidenceType |-> MISSING, origin |-> MISSING],
               NoNum, "ana", LowLoad)
Idle ==
  [pc |-> "idle", route |-> "", token |-> NoToken, body |-> NoBody,
   row |-> NoRow, cooldownUntil |-> NULL]
NoResponse ==
  [route |-> "", token |-> NoToken, body |-> NoBody, row |-> NoRow,
   status |-> 0, kind |-> "", remaining |-> 0]


\* ------------------------------------------------------------- middleware
Pass == [status |-> 0, kind |-> "next", remaining |-> 0]
Reject(st, k) == [status |-> st, kind |-> k, remaining |-> 0]

\* authMiddleware(allowedRoles): 401 without a verifiable token, 403 for a role
\* that is not allowed, else next()
authMiddleware(allowedRoles, token) ==
  IF token = NoToken THEN Reject(401, "Authentication required")
  ELSE IF token = BadToken THEN Reject(401, "Invalid token")
  ELSE IF RoleOf(token) \notin allowedRoles THEN Reject(403, "Insufficient permissions")
  ELSE Pass

WriteRoles == {"analyst", "admin"}

\* parseFloat of a JSON value: a number, or NaN for text
parseFloat(v) == [nan |-> v.kind # "number", val |-> v.val]
\* x > limit on IEEE numbers: false when x is NaN
GreaterThan(x, limit) == ~x.nan /\ x.val > limit
\* Math.ceil(n / d) for d > 0 (n may be zero or negative)
Ceil(n, d) == -((-n) \div d)

\* epistemicHygieneMiddleware after its SELECT has returned `row`: `now1` is the
\* clock read by the cooldown comparison, `now2` the clock read for the message
\* the gate with the confidence cap checked before the concurrency limit
epistemicHygieneMiddleware_CapSecond(role, row, body, now1, now2) ==
  IF row.present /\ row.cooldown_until # NULL /\ row.cooldown_until > now1
    THEN [status |-> 429, kind |-> "CooldownActive",
          remaining |-> Ceil(row.cooldown_until - now2, MsPerMinute)]
  ELSE IF body.confidenceWeight.kind # "undefined"
          /\ GreaterThan(parseFloat(body.confidenceWeight), MAX_CONFIDENCE_WEIGHT)
    THEN Reject(400, "ConfidenceCapExceeded")
  ELSE IF row.present /\ row.concurrent_audits >= MAX_CONCURRENT_AUDITS[role]
    THEN Reject(429, "ConcurrencyExceeded")
  ELSE IF body.dataScope = "simulated" /\ role # "admin"
    THEN Reject(403, "UnauthorizedScope")
  ELSE Pass

epistemicHygieneMiddleware(role, row, body, now1, now2) ==
  IF row.present /\ row.cooldown_until # NULL /\ row.cooldown_until > now1
    THEN [status |-> 429, kind |-> "CooldownActive",
          remaining |-> Ceil(row.cooldown_until - now2, MsPerMinute)]
  ELSE IF row.present /\ row.concurrent_audits >= MAX_CONCURRENT_AUDITS[role]
    THEN Reject(429, "ConcurrencyExceeded")
  ELSE IF body.confidenceWeight.kind # "undefined"
          /\ GreaterThan(parseFloat(body.confidenceWeight), MAX_CONFIDENCE_WEIGHT)
    THEN Reject(400, "ConfidenceCapExceeded")
  ELSE IF body.dataScope = "simulated" /\ role # "admin"
    THEN Reject(403, "UnauthorizedScope")
  ELSE Pass

validScopes == {"inferred", "observed", "simulated"}
validEvidenceTypes == {"direct", "proxy", "estimated"}
\* String.prototype.trim on the strings of the input sets
Trim(s) == IF s = "   " THEN "" ELSE s

\* the validation without its origin check
validateDataScope_NoOrigin(body) ==
  IF body.dataScope = MISSING \/ body.dataScope \notin validScopes
    THEN Reject(400, "Invalid data_scope")
  ELSE IF body.evidenceType = MISSING \/ body.evidenceType \notin validEvidenceTypes
    THEN Reject(400, "Invalid evidence_type")
  ELSE Pass

validateDataScope(body) ==
  IF body.dataScope = MISSING \/ body.dataScope \notin validScopes
    THEN Reject(400, "Invalid data_scope")
  ELSE IF body.evidenceType = MISSING \/ body.evidenceType \notin validEvidenceTypes
    THEN Reject(400, "Invalid evidence_type")
  ELSE IF body.origin = MISSING \/ body.origin = "" \/ Trim(body.origin) = ""
    THEN Reject(400, "Invalid origin")
  ELSE Pass

\* --------------------------------------------------- the store's constraints
\* data_scope / evidence_type CHECKs and the NOT NULLs of the provenance columns
ProvenanceColumnsOk(body) ==
  /\ body.dataScope \in validScopes
  /\ body.evidenceType \in validEvidenceTypes
  /\ body.origin # MISSING

\* a thousandths input cast to DECIMAL(3,2): rounded half away from zero
Decimal32(v) == IF v >= 0 THEN (v + 5) \div 10 ELSE -((5 - v) \div 10)

\* reasoning_frames: confidence_weight NOT NULL, numeric, CHECK (0 <= w <= 0.95)
FrameColumnsOk(body) ==
  /\ body.confidenceWeight.kind = "number"
  /\ Decimal32(body.confidenceWeight.val) >= 0
  /\ Decimal32(body.confidenceWeight.val) <= 95
  /\ ProvenanceColumnsOk(body)

\* thirtieths of a point cast to DECIMAL(3,1): tenths, rounded half away from zero
Decimal31(v) == IF v >= 0 THEN (2 * v + 3) \div 6 ELSE -((3 - 2 * v) \div 6)

\* the route's lagDays, and its riskScore Math.min(10, lagDays / 30) in
\* thirtieths of a point
ApiLagDays(body) == (body.benefitRealizedDate - body.decisionDate) \div HoursPerDay
ApiRiskScore(lagDays) == IF lagDays < 300 THEN lagDays ELSE 300

\* lagged_outcomes: risk_score CHECK (0 <= risk_score <= 10)
OutcomeColumnsOk(body) ==
  /\ Decimal31(ApiRiskScore(ApiLagDays(body))) >= 0
  /\ Decimal31(ApiRiskScore(ApiLagDays(body))) <= 100
  /\ ProvenanceColumnsOk(body)

\* observer_metrics: correction_rate and contradiction_exposure CHECK (0 <= x <= 1)
MetricColumnsOk(body) ==
  /\ body.correctionRate \in 0..100
  /\ body.contradictionExposure \in 0..100
  /\ ProvenanceColumnsOk(body)


\* no layer call made yet
NoCall == [op |-> ""]

\* ------------------------------------------------------------------- Init
\* The store outlives the server: observer_metrics may already hold rows (the
\* schema's seed row, rows written by earlier runs) with any concurrent_audits.
\* the beneficiaries outcomes are tracked for, and a pattern not yet in the map;
\* avgLagDays is lagSum / occurrences
Beneficiaries == {"acme", "zeta"}
NoPattern == [present |-> FALSE, occurrences |-> 0, lagSum |-> 0, totalRiskScore |-> 0]

\* the domains of the question registry; askedAt is a day, and the questions of
\* a domain are counted by askedAt (no method depends on their order)
QemDomains == {"vendor-oversight", "financial-controls"}
\* days before instant 0 at which a backdated question was asked
BackdatedDays == 35
Backdated == 0 - BackdatedDays
\* days before instant 0 of a question asked before the twelve weeks looked at
OlderDays == 100
Older == 0 - OlderDays
AskedAts == {Older, Backdated} \cup {t * TickDays : t \in 0..MaxDate}
NoQuestions == [a \in AskedAts |-> 0]

\* the observers whose load is updated, and an observer not yet in the map
OliObservers == {"ana", "ben"}
NoObserver ==
  [present |-> FALSE, auditsReviewed |-> 0, correctionRate |-> 0,
   contradictionExposure |-> 0, fatigueRisk |-> "low"]
\* a store whose tables system_purposes, drift_alerts and resilience_scores are
\* empty, as the schema creates them
NoRegisters ==
  /\ system_purposes = <<>>
  /\ drift_alerts = <<>>
  /\ resilience_scores = <<>>

\* an ObserverLoadIndex as constructed
OliConstructed ==
  /\ observers = [o \in OliObservers |-> NoObserver]
  /\ loadAlerts = <<>>
  /\ cooldownQueue = <<>>

Init ==
  /\ clock = 0
  /\ \E c \in (MaxInitConcurrent - 1)..MaxInitConcurrent :
       observer_metrics \in {[o \in ObserverIds |-> NoRow],
                             [o \in ObserverIds |-> IF o = "ana" THEN SeedRow(c) ELSE NoRow]}
  /\ reasoning_frames = <<>>
  /\ questions = <<>>
  /\ lagged_outcomes = <<>>
  /\ usage_events = <<>>
  /\ NoRegisters
  /\ req = [r \in Slots |-> Idle]
  /\ nreq = 0
  /\ resp = NoResponse
  /\ frames = <<>>
  /\ dominanceAlerts = <<>>
  /\ frameworkRotationQueue = <<>>
  /\ purposes = <<>>
  /\ usageEvents = [id \in 0..MaxPurposes |-> <<>>]
  /\ driftAlerts = <<>>
  /\ systemPaused = FALSE
  /\ outcomes = <<>>
  /\ lagAlerts = <<>>
  /\ beneficiaryPatterns = [b \in Beneficiaries |-> NoPattern]
  /\ questionRegistry = [d \in QemDomains |-> NoQuestions]
  /\ entropyAlerts = <<>>
  /\ suppressedQuestions = [d \in QemDomains |-> <<>>]
  /\ OliConstructed
  /\ ret = NoCall

\* ---------------------------------------------------------------- helpers
FirstIdle(r) == req[r].pc = "idle" /\ \A q \in Slots : q < r => req[q].pc # "idle"

\* the response to request q
Response(q, res) ==
  [route |-> q.route, token |-> q.token, body |-> q.body, row |-> q.row,
   status |-> res.status, kind |-> res.kind, remaining |-> res.remaining]

Arrived(route, token, body) ==
  [Idle EXCEPT !.route = route, !.token = token, !.body = body]

\* a receive whose handler has stored its row before validateDataScope rejects
ReceiveWith_ValidatedLate(r, route, token, body, cooldownUntil) ==
  /\ FirstIdle(r)
  /\ nreq < MaxRequests
  /\ nreq' = nreq + 1
  /\ LET q == Arrived(route, token, body)
         a == authMiddleware(WriteRoles, token)
         v == validateDataScope(body)
     IN IF a.status # 0
          THEN resp' = Response(q, a) /\ req' = req /\ UNCHANGED tables
        ELSE IF v.status # 0
          THEN /\ resp' = Response(q, v) /\ req' = req
               /\ usage_events' = Append(usage_events,
                     [purpose_id |-> body.purposeId,
                      event_type |-> "audit", data_scope |-> body.dataScope,
                      evidence_type |-> body.evidenceType, origin |-> body.origin])
               /\ UNCHANGED <<observer_metrics, reasoning_frames, questions, lagged_outcomes,
                               registers>>
        ELSE /\ resp' = resp
             /\ req' = [req EXCEPT ![r] =
                          [q EXCEPT !.pc = "insert", !.cooldownUntil = cooldownUntil]]
             /\ UNCHANGED tables
  /\ UNCHANGED <<clock, layers>>

\* A request that arrives on a route without the admission gate: authMiddleware
\* and validateDataScope run at once; the handler then sends its INSERT, which
\* the store executes in a later step.
ReceiveWith(r, route, token, body, cooldownUntil) ==
  /\ FirstIdle(r)
  /\ nreq < MaxRequests
  /\ nreq' = nreq + 1
  /\ LET q == Arrived(route, token, body)
         a == authMiddleware(WriteRoles, token)
         v == validateDataScope(body)
     IN IF a.status # 0
          THEN resp' = Response(q, a) /\ req' = req
        ELSE IF v.status # 0
          THEN resp' = Response(q, v) /\ req' = req
        ELSE /\ resp' = resp
             /\ req' = [req EXCEPT ![r] =
                          [q EXCEPT !.pc = "insert", !.cooldownUntil = cooldownUntil]]
  /\ UNCHANGED <<clock, tables, layers>>

ReceivePlain(r, route, token, body) == ReceiveWith(r, route, token, body, NULL)

ProvenanceOf(body) ==
  [data_scope |-> body.dataScope, evidence_type |-> body.evidenceType, origin |-> body.origin]

Created(r) == Response(req[r], [status |-> 201, kind |-> "created", remaining |-> 0])
Failed(r) == Response(req[r], [status |-> 500, kind |-> "failed", remaining |-> 0])

\* -------------------------------------------------------------------- RPL
\* POST /api/v2/rpl/track arrives: authMiddleware, then the gate's SELECT of the
\* caller's observer_metrics row
RplTrack_Receive(r) ==
  \E tb \in Requests({"ana", "adm"}, RplBodies) : LET token == tb[1] body == tb[2] IN
    /\ FirstIdle(r)
    /\ nreq < MaxRequests
    /\ nreq' = nreq + 1
    /\ LET q == Arrived("rpl/track", token, body)
           a == authMiddleware(WriteRoles, token)
       IN IF a.status # 0
            THEN resp' = Response(q, a) /\ req' = req
          ELSE /\ resp' = resp
               /\ req' = [req EXCEPT ![r] =
                            [q EXCEPT !.pc = "gate", !.row = observer_metrics[token]]]
    /\ UNCHANGED <<clock, tables, layers>>

\* the gate resumes with the row it read, then validateDataScope, then the
\* handler sends its INSERT; the clock may move on between the gate's two reads
EpistemicHygiene_Resume(r) ==
  \E now2 \in {t \in Instants : t = clock \/ t = clock + 1} :
    /\ req[r].pc = "gate"
    /\ LET q == req[r]
           g == epistemicHygieneMiddleware(RoleOf(q.token), q.row, q.body, clock, now2)
           v == validateDataScope(q.body)
       IN IF g.status # 0
            THEN resp' = Response(q, g) /\ req' = [req EXCEPT ![r] = Idle]
          ELSE IF v.status # 0
            THEN resp' = Response(q, v) /\ req' = [req EXCEPT ![r] = Idle]
          ELSE resp' = resp /\ req' = [req EXCEPT ![r].pc = "insert"]
    /\ clock' = now2
    /\ UNCHANGED <<tables, nreq, layers>>

\* the store executes INSERT INTO reasoning_frames
RplTrack_Insert(r) ==
  /\ req[r].pc = "insert" /\ req[r].route = "rpl/track"
  /\ IF FrameColumnsOk(req[r].body)
       THEN /\ reasoning_frames' = Append(reasoning_frames,
                 [framework |-> "Cost_Benefit",
                  confidence_weight |-> Decimal32(req[r].body.confidenceWeight.val),
                  user_id |-> req[r].token] @@ ProvenanceOf(req[r].body))
            /\ resp' = Created(r)
       ELSE UNCHANGED reasoning_frames /\ resp' = Failed(r)
  /\ req' = [req EXCEPT ![r] = Idle]
  /\ UNCHANGED <<clock, observer_metrics, questions, lagged_outcomes, usage_events, nreq, registers, layers>>

\* -------------------------------------------------------------------- QEM
QemRegister_Receive(r) ==
  \E tb \in Requests({"ana"}, PlainBodies) : ReceivePlain(r, "qem/register", tb[1], tb[2])

QemRegister_Insert(r) ==
  /\ req[r].pc = "insert" /\ req[r].route = "qem/register"
  /\ IF ProvenanceColumnsOk(req[r].body)
       THEN /\ questions' = Append(questions,
                 [domain |-> "procurement", asked_by |-> req[r].token]
                   @@ ProvenanceOf(req[r].body))
            /\ resp' = Created(r)
       ELSE UNCHANGED questions /\ resp' = Failed(r)
  /\ req' = [req EXCEPT ![r] = Idle]
  /\ UNCHANGED <<clock, observer_metrics, reasoning_frames, lagged_outcomes, usage_events, nreq, registers, layers>>

\* -------------------------------------------------------------------- LOA
LoaTrackOutcome_Receive(r) ==
  \E tb \in Requests({"ana"}, LoaBodies) : ReceivePlain(r, "loa/track-outcome", tb[1], tb[2])

LoaTrackOutcome_Insert(r) ==
  /\ req[r].pc = "insert" /\ req[r].route = "loa/track-outcome"
  /\ IF OutcomeColumnsOk(req[r].body)
       THEN /\ lagged_outcomes' = Append(lagged_outcomes,
                 [beneficiary |-> "vendor", lag_days |-> ApiLagDays(req[r].body),
                  risk_score |-> Decimal31(ApiRiskScore(ApiLagDays(req[r].body)))]
                 @@ ProvenanceOf(req[r].body))
            /\ resp' = Created(r)
       ELSE UNCHANGED lagged_outcomes /\ resp' = Failed(r)
  /\ req' = [req EXCEPT ![r] = Idle]
  /\ UNCHANGED <<clock, observer_metrics, reasoning_frames, questions, usage_events, nreq, registers, layers>>

\* -------------------------------------------------------------------- PDS
PdsTrackUsage_ReceiveAny(r, bodies) ==
  \E tb \in Requests({"ana"}, bodies) : ReceivePlain(r, "pds/track-usage", tb[1], tb[2])

PdsTrackUsage_Receive(r) == PdsTrackUsage_ReceiveAny(r, PlainBodies)

\* usage_events: purpose_id is NULL (no purposeId in the body) or REFERENCES
\* system_purposes(id)
UsageColumnsOk(body, purposeRows) ==
  /\ \/ body.purposeId = MISSING
     \/ \E i \in DOMAIN purposeRows : purposeRows[i].id = body.purposeId
  /\ ProvenanceColumnsOk(body)

PdsTrackUsage_Insert(r) ==
  /\ req[r].pc = "insert" /\ req[r].route = "pds/track-usage"
  /\ IF UsageColumnsOk(req[r].body, system_purposes)
       THEN /\ usage_events' = Append(usage_events,
                 [purpose_id |-> req[r].body.purposeId, event_type |-> "audit"]
                   @@ ProvenanceOf(req[r].body))
            /\ resp' = Created(r)
       ELSE UNCHANGED usage_events /\ resp' = Failed(r)
  /\ req' = [req EXCEPT ![r] = Idle]
  /\ UNCHANGED <<clock, observer_metrics, reasoning_frames, questions, lagged_outcomes, nreq, registers, layers>>

\* -------------------------------------------------------------------- OLI
\* fatigueScore = correctionRate * 0.4 + contradictionExposure * 0.6, in thousandths
ApiFatigueScore(body) == body.correctionRate * 4 + body.contradictionExposure * 6

ApiFatigueRisk(body) ==
  IF ApiFatigueScore(body) > 700 THEN "critical"
  ELSE IF ApiFatigueScore(body) > 500 THEN "high"
  ELSE IF ApiFatigueScore(body) > 300 THEN "medium"
  ELSE "low"

\* cooldownUntil: 24 hours from the handler's clock if critical, else null
ApiCooldownUntil(body, now) ==
  IF ApiFatigueRisk(body) = "critical" THEN now + CooldownMs ELSE NULL

\* POST /api/v2/oli/update-load arrives: authMiddleware, validateDataScope, then
\* the handler derives fatigue_risk and cooldownUntil and sends its upsert
OliUpdateLoad_Receive(r) ==
  \E tb \in Requests({"ana"}, OliBodies) :
    ReceiveWith(r, "oli/update-load", tb[1], tb[2], ApiCooldownUntil(tb[2], clock))

\* INSERT ... ON CONFLICT (observer_id) DO UPDATE: a new row takes the column
\* defaults and the provenance; an existing row keeps its concurrent_audits and
\* provenance, and its cooldown_until is overwritten
Upserted(old, q) ==
  IF old.present
    THEN [old EXCEPT !.audits_reviewed = q.body.auditsReviewed,
                     !.correction_rate = q.body.correctionRate,
                     !.contradiction_exposure = q.body.contradictionExposure,
                     !.fatigue_risk = ApiFatigueRisk(q.body),
                     !.cooldown_until = q.cooldownUntil]
    ELSE [present |-> TRUE, concurrent_audits |-> 0, cooldown_until |-> q.cooldownUntil,
          fatigue_risk |-> ApiFatigueRisk(q.body),
          audits_reviewed |-> q.body.auditsReviewed,
          correction_rate |-> q.body.correctionRate,
          contradiction_exposure |-> q.body.contradictionExposure]
         @@ ProvenanceOf(q.body)

OliUpdateLoad_Upsert(r) ==
  /\ req[r].pc = "insert" /\ req[r].route = "oli/update-load"
  /\ IF MetricColumnsOk(req[r].body)
       THEN /\ observer_metrics' =
                 [observer_metrics EXCEPT ![req[r].body.observerId] = Upserted(@, req[r])]
            /\ resp' = Response(req[r], [status |-> 200, kind |-> "updated", remaining |-> 0])
       ELSE UNCHANGED observer_metrics /\ resp' = Failed(r)
  /\ req' = [req EXCEPT ![r] = Idle]
  /\ UNCHANGED <<clock, reasoning_frames, questions, lagged_outcomes, usage_events, nreq, registers, layers>>

\* ------------------------------------------------------------------ clock
Tick ==
  /\ \E t \in Instants : t > clock /\ clock' = t
  /\ UNCHANGED <<tables, req, nreq, resp, layers>>

Next ==
  \/ Tick
  \/ \E r \in Slots : RplTrack_Receive(r)
  \/ \E r \in Slots : EpistemicHygiene_Resume(r)
  \/ \E r \in Slots : RplTrack_Insert(r)
  \/ \E r \in Slots : QemRegister_Receive(r)
  \/ \E r \in Slots : QemRegister_Insert(r)
  \/ \E r \in Slots : LoaTrackOutcome_Receive(r)
  \/ \E r \in Slots : LoaTrackOutcome_Insert(r)
  \/ \E r \in Slots : PdsTrackUsage_Receive(r)
  \/ \E r \in Slots : PdsTrackUsage_Insert(r)
  \/ \E r \in Slots : OliUpdateLoad_Receive(r)
  \/ \E r \in Slots : OliUpdateLoad_Upsert(r)

Spec == Init /\ [][Next]_vars


\* ===================================================== ReasoningProvenanceLayer
\* Weights are in thousandths. A frame keeps the two fields the layer computes
\* with; its id is its position in frames.
Frameworks == {"Cost_Benefit", "Devil_Lens_Critique"}
\* thousandths that are exact binary fractions, so that the sums and shares the
\* class computes in floating point are the exact ones
FrameWeights == {0, 250, 750, 1000}
FrameInputs == [framework : Frameworks, confidenceWeight : FrameWeights]

\* a quotient num / den of two sums of weights, as JavaScript divides them:
\* 0 / 0 is NaN, and every comparison with NaN is false
Quotient(n, d) == [num |-> n, den |-> d]
IsNaN(x) == x.den = 0 /\ x.num = 0
\* Math.round of num / den for den > 0: halves go up
Round(num, den) == (2 * num + den) \div (2 * den)
\* x >= a / b instead of x > a / b
Exceeds_OrEqual(x, a, b) ==
  IF x.den > 0 THEN x.num * b >= a * x.den
  ELSE IF x.den < 0 THEN x.num * b <= a * x.den
  ELSE x.num > 0

\* x > a / b, for b > 0
Exceeds(x, a, b) ==
  IF x.den > 0 THEN x.num * b > a * x.den
  ELSE IF x.den < 0 THEN x.num * b < a * x.den
  ELSE x.num > 0

RECURSIVE WeightOf(_, _)
\* summed confidenceWeight of the frames of framework fw
WeightOf(fs, fw) ==
  IF fs = <<>> THEN 0
  ELSE (IF Head(fs).framework = fw THEN Head(fs).confidenceWeight ELSE 0)
       + WeightOf(Tail(fs), fw)

RECURSIVE TotalWeightOf(_)
TotalWeightOf(fs) ==
  IF fs = <<>> THEN 0 ELSE Head(fs).confidenceWeight + TotalWeightOf(Tail(fs))

RECURSIVE FrameworkOrder(_, _)
\* the keys of frameworkWeights in insertion order: frameworks by first use
FrameworkOrder(fs, seen) ==
  IF fs = <<>> THEN <<>>
  ELSE IF Head(fs).framework \in seen THEN FrameworkOrder(Tail(fs), seen)
  ELSE <<Head(fs).framework>> \o FrameworkOrder(Tail(fs), seen \cup {Head(fs).framework})

allFrameworks ==
  <<"Devil_Lens_Critique", "RSGD_360_Spiral", "Institutional_Decay_Detector",
    "Beneficiary_Tracing", "Question_Entropy_Analysis">>

getAlternativeFrameworks(current) == SelectSeq(allFrameworks, LAMBDA f : f # current)

riskLevelOf(dominance) ==
  IF Exceeds(dominance, 85, 100) THEN "HIGH"
  ELSE IF Exceeds(dominance, 75, 100) THEN "MEDIUM"
  ELSE "LOW"

\* the alert triggerDominanceAlert builds
DominanceAlert(framework, dominance) ==
  [framework |-> framework, dominance |-> dominance, threshold |-> 700,
   recommendation |-> Head(getAlternativeFrameworks(framework)),
   riskLevel |-> riskLevelOf(dominance)]

\* the first two known frameworks, the dominant one not filtered out
RotationFor_Unfiltered(framework) == SubSeq(allFrameworks, 1, 2)

\* what queueFrameworkRotation pushes
RotationFor(framework) == SubSeq(getAlternativeFrameworks(framework), 1, 2)

\* the dominance checkFrameworkDominance computes for framework fw
dominanceOf(fs, fw) == Quotient(WeightOf(fs, fw), TotalWeightOf(fs))

RECURSIVE DominanceCheck(_, _, _, _)
\* checkFrameworkDominance over the frameworks `order`: the alerts and the queue
\* after every framework above 70% has triggered its alert
DominanceCheck(fs, order, alerts, queue) ==
  IF order = <<>> THEN [alerts |-> alerts, queue |-> queue]
  ELSE LET fw == Head(order)
           dominance == Quotient(WeightOf(fs, fw), TotalWeightOf(fs))
       IN IF Exceeds(dominance, 7, 10) /\ ~IsNaN(dominance)
            THEN DominanceCheck(fs, Tail(order),
                                Append(alerts, DominanceAlert(fw, dominance)),
                                queue \o RotationFor(fw))
            ELSE DominanceCheck(fs, Tail(order), alerts, queue)

\* the frame trackReasoning stores: lastUsed is always the time of the call
StoredFrame(frame, now) ==
  [framework |-> frame.framework, confidenceWeight |-> frame.confidenceWeight,
   lastUsed |-> now]

\* a trackReasoning that first drops the alerts of the frameworks that are no
\* longer above 70%
TrackReasoningUpTo_Recomputed(cap) ==
  \E frame \in FrameInputs :
    /\ Len(frames) < cap
    /\ LET fs == Append(frames, StoredFrame(frame, clock))
           open == SelectSeq(dominanceAlerts,
                             LAMBDA a : Exceeds(dominanceOf(fs, a.framework), 7, 10))
           after == DominanceCheck(fs, FrameworkOrder(fs, {}), open,
                                   frameworkRotationQueue)
       IN /\ frames' = fs
          /\ dominanceAlerts' = after.alerts
          /\ frameworkRotationQueue' = after.queue
    /\ ret' = [op |-> "trackReasoning"]
    /\ UNCHANGED <<server, oliLayer, pdsLayer, loaLayer, qemLayer>>

\* trackReasoning(frame): store the frame, then checkFrameworkDominance
TrackReasoningUpTo(cap) ==
  \E frame \in FrameInputs :
    /\ Len(frames) < cap
    /\ LET fs == Append(frames, StoredFrame(frame, clock))
           after == DominanceCheck(fs, FrameworkOrder(fs, {}), dominanceAlerts,
                                   frameworkRotationQueue)
       IN /\ frames' = fs
          /\ dominanceAlerts' = after.alerts
          /\ frameworkRotationQueue' = after.queue
    /\ ret' = [op |-> "trackReasoning"]
    /\ UNCHANGED <<server, oliLayer, pdsLayer, loaLayer, qemLayer>>

TrackReasoning == TrackReasoningUpTo(MaxFrames)

\* RPL calculateResilience(): Math.round((1 - maxDominance) * 100), where a NaN
\* dominance never replaces maxDominance
RECURSIVE MaxQuotient(_, _, _)
MaxQuotient(fs, order, best) ==
  IF order = <<>> THEN best
  ELSE LET d == Quotient(WeightOf(fs, Head(order)), TotalWeightOf(fs))
       IN MaxQuotient(fs, Tail(order),
                      IF ~IsNaN(d) /\ Exceeds(d, best.num, best.den) THEN d ELSE best)

RplResilience(fs) ==
  LET m == MaxQuotient(fs, FrameworkOrder(fs, {}), Quotient(0, 1))
  IN (200 * (m.den - m.num) + m.den) \div (2 * m.den)

RplCalculateResilience ==
  /\ ret' = [op |-> "rpl.calculateResilience", result |-> RplResilience(frames)]
  /\ UNCHANGED <<server, oliLayer, loaLayer, qemLayer, rplLayer, pdsLayer>>

\* the layer classes are constructed in a process of their own: no request is in
\* flight and the store is out of reach
InitLayers ==
  /\ Init
  /\ observer_metrics = [o \in ObserverIds |-> NoRow]

NextRpl ==
  \/ TrackReasoning
  \/ RplCalculateResilience

SpecRpl == InitLayers /\ [][NextRpl]_vars

RECURSIVE Replay(_, _, _, _)
\* the alerts and the queue after trackReasoning has stored the frames k.. of
\* fs, one call each
Replay(fs, k, alerts, queue) ==
  IF k > Len(fs) THEN [alerts |-> alerts, queue |-> queue]
  ELSE LET stored == SubSeq(fs, 1, k)
           after == DominanceCheck(stored, FrameworkOrder(stored, {}), alerts, queue)
       IN Replay(fs, k + 1, after.alerts, after.queue)

\* a layer in use: a Cost_Benefit and a Devil_Lens_Critique frame of weight 1.0
\* recorded first, then frames of weight 0, all at instant 0. The first call
\* raised an alert; from the second on both shares are 1/2 and no call did
RecordedAtStart ==
  [i \in 1..RecordedFrames |->
     IF i = 1 THEN [framework |-> "Cost_Benefit", confidenceWeight |-> 1000, lastUsed |-> 0]
     ELSE IF i = 2
       THEN [framework |-> "Devil_Lens_Critique", confidenceWeight |-> 1000, lastUsed |-> 0]
     ELSE [framework |-> "Devil_Lens_Critique", confidenceWeight |-> 0, lastUsed |-> 0]]

InitRplInUse ==
  /\ clock = 0
  /\ observer_metrics = [o \in ObserverIds |-> NoRow]
  /\ reasoning_frames = <<>> /\ questions = <<>>
  /\ lagged_outcomes = <<>> /\ usage_events = <<>> /\ NoRegisters
  /\ req = [r \in Slots |-> Idle] /\ nreq = 0 /\ resp = NoResponse
  /\ frames = RecordedAtStart
  /\ dominanceAlerts = Replay(SubSeq(RecordedAtStart, 1, 2), 1, <<>>, <<>>).alerts
  /\ frameworkRotationQueue = Replay(SubSeq(RecordedAtStart, 1, 2), 1, <<>>, <<>>).queue
  /\ purposes = <<>> /\ usageEvents = [id \in 0..MaxPurposes |-> <<>>]
  /\ driftAlerts = <<>> /\ systemPaused = FALSE
  /\ outcomes = <<>> /\ lagAlerts = <<>>
  /\ beneficiaryPatterns = [b \in Beneficiaries |-> NoPattern]
  /\ questionRegistry = [d \in QemDomains |-> NoQuestions]
  /\ entropyAlerts = <<>> /\ suppressedQuestions = [d \in QemDomains |-> <<>>]
  /\ OliConstructed
  /\ ret = [op |-> "trackReasoning"]

TrackReasoningInUse == TrackReasoningUpTo(RecordedFrames + MaxLaterFrames)

\* time passes between two calls of the layer
Advance ==
  /\ clock < MaxDate
  /\ clock' = clock + 1
  /\ UNCHANGED <<tables, req, nreq, resp, layers>>

NextRplInUse ==
  \/ TrackReasoningInUse
  \/ RplCalculateResilience
  \/ Advance

SpecRplInUse == InitRplInUse /\ [][NextRplInUse]_vars

\* ========================================================= PurposeDriftSentinel
\* A purpose's id is its position in purposes (ids are handed out fresh, in
\* order); UnknownId is an id that registerPurpose never hands out. A text is
\* the sequence of its words, so split(/\W+/) is already applied. usageEvents
\* maps an id without entry to the empty sequence, which is what every read
\* (usageEvents.get(id) || []) makes of it.
UnknownId == 0

\* String.prototype.toLowerCase on the words of the input sets
Lower(w) ==
  CASE w = "Fair" -> "fair"
    [] w = "Audit" -> "audit"
    [] w = "Public" -> "public"
    [] w = "Aid" -> "aid"
    [] OTHER -> w

\* word.length
WordLength(w) ==
  CASE w \in {"Aid", "aid"} -> 3
    [] w \in {"Fair", "fair", "sell", "data"} -> 4
    [] w \in {"Audit", "audit"} -> 5
    [] OTHER -> 6

Intents == {<<"Fair", "Audit">>, <<"Public", "Audit">>, <<"fair", "data">>, <<"Aid">>}
UsageInputs == {[eventType |-> "export", description |-> <<"sell", "fair", "data">>]}
Statements == {<<"Fair", "Audit">>, <<"Public", "audit">>}

Range(seq) == {seq[i] : i \in 1..Len(seq)}

extractKeywords(text) ==
  SelectSeq([i \in 1..Len(text) |-> Lower(text[i])], LAMBDA word : WordLength(word) > 3)

\* intentKeywords.filter(k => otherKeywords.includes(k)).length
OverlapCount(keywords, otherKeywords) ==
  Len(SelectSeq(keywords, LAMBDA k : k \in Range(otherKeywords)))

\* events.slice(-n)
LastN(events, n) ==
  IF Len(events) <= n THEN events ELSE SubSeq(events, Len(events) - n + 1, Len(events))

RECURSIVE MatchCount(_, _)
\* the sum over the events of their overlap with the intent keywords
MatchCount(intentKeywords, events) ==
  IF events = <<>> THEN 0
  ELSE OverlapCount(intentKeywords, extractKeywords(Head(events).description))
       + MatchCount(intentKeywords, Tail(events))

\* 1 - (sum of overlap / intentKeywords.length) / recentEvents.length; with no
\* intent keyword every term is 0 / 0 and the result is NaN
calculateSemanticDivergence(purpose, events) ==
  LET intentKeywords == extractKeywords(purpose.originalIntent)
      recentEvents == LastN(events, 20)
      total == Len(intentKeywords) * Len(recentEvents)
  IN IF Len(intentKeywords) = 0 THEN Quotient(0, 0)
     ELSE Quotient(total - MatchCount(intentKeywords, recentEvents), total)

TypesOf(events) == {events[i].eventType : i \in 1..Len(events)}

\* 1 - Jaccard similarity of the event types of the first 10 and the last 10
calculateUsagePatternShift(events) ==
  IF Len(events) < 20 THEN Quotient(0, 1)
  ELSE LET earlyTypes == TypesOf(SubSeq(events, 1, 10))
           recentTypes == TypesOf(LastN(events, 10))
           union == earlyTypes \cup recentTypes
       IN Quotient(Cardinality(union) - Cardinality(earlyTypes \cap recentTypes),
                   Cardinality(union))

\* sd * 0.7 + ups * 0.3
WeightedDrift(sd, ups) ==
  IF IsNaN(sd) \/ IsNaN(ups) THEN Quotient(0, 0)
  ELSE Quotient(7 * sd.num * ups.den + 3 * ups.num * sd.den, 10 * sd.den * ups.den)

trendOf(overallDrift) ==
  IF Exceeds(overallDrift, 4, 10) THEN "CRITICAL"
  ELSE IF Exceeds(overallDrift, 2, 10) THEN "DRIFTING"
  ELSE "STABLE"

\* a calculateDrift that computes from the first event on
calculateDrift_NoMinimum(ps, evs, purposeId) ==
  IF purposeId \notin DOMAIN ps \/ Len(evs[purposeId]) = 0
    THEN [purposeId |-> purposeId, semanticDivergence |-> Quotient(0, 1),
          usagePatternShift |-> Quotient(0, 1), overallDrift |-> Quotient(0, 1),
          trend |-> "STABLE"]
  ELSE LET sd == calculateSemanticDivergence(ps[purposeId], evs[purposeId])
           ups == calculateUsagePatternShift(evs[purposeId])
           overallDrift == WeightedDrift(sd, ups)
       IN [purposeId |-> purposeId, semanticDivergence |-> sd, usagePatternShift |-> ups,
           overallDrift |-> overallDrift, trend |-> trendOf(overallDrift)]

\* calculateDrift(purposeId) on the given purposes and events
calculateDrift(ps, evs, purposeId) ==
  IF purposeId \notin DOMAIN ps \/ Len(evs[purposeId]) < 10
    THEN [purposeId |-> purposeId, semanticDivergence |-> Quotient(0, 1),
          usagePatternShift |-> Quotient(0, 1), overallDrift |-> Quotient(0, 1),
          trend |-> "STABLE"]
  ELSE LET sd == calculateSemanticDivergence(ps[purposeId], evs[purposeId])
           ups == calculateUsagePatternShift(evs[purposeId])
           overallDrift == WeightedDrift(sd, ups)
       IN [purposeId |-> purposeId, semanticDivergence |-> sd, usagePatternShift |-> ups,
           overallDrift |-> overallDrift, trend |-> trendOf(overallDrift)]

\* an alert action that pauses on every alert
alertAction_AlwaysPause(overallDrift) == "PAUSE_SYSTEM"

\* the action triggerDriftAlert gives its alert
alertAction(overallDrift) ==
  IF Exceeds(overallDrift, 5, 10) THEN "PAUSE_SYSTEM" ELSE "REQUIRE_RECOMMITMENT"

DriftAlert(purposeId, metrics) ==
  [purposeId |-> purposeId, divergence |-> metrics.overallDrift, threshold |-> 300,
   action |-> alertAction(metrics.overallDrift)]

\* an alignment that is full as soon as one keyword is shared
verifyRecommitmentAlignment_AnyKeyword(originalIntent, recommitment) ==
  LET originalKeywords == extractKeywords(originalIntent)
      recommitmentKeywords == extractKeywords(recommitment)
  IN Quotient(IF OverlapCount(originalKeywords, recommitmentKeywords) > 0 THEN 1 ELSE 0, 1)

\* overlap / originalKeywords.length
verifyRecommitmentAlignment(originalIntent, recommitment) ==
  LET originalKeywords == extractKeywords(originalIntent)
      recommitmentKeywords == extractKeywords(recommitment)
  IN Quotient(OverlapCount(originalKeywords, recommitmentKeywords), Len(originalKeywords))

\* x < a / b for b > 0; false for NaN
Below(x, a, b) == ~IsNaN(x) /\ x.den > 0 /\ x.num * b < a * x.den

RECURSIVE EventCount(_, _)
\* usage events recorded so far under the ids 0..id
EventCount(evs, id) ==
  Len(evs[id]) + (IF id = 0 THEN 0 ELSE EventCount(evs, id - 1))

\* registerPurpose(purpose), declaredAt left to the layer; returns the new id
RegisterPurpose ==
  \E intent \in Intents :
    /\ Len(purposes) < MaxPurposes
    /\ purposes' = Append(purposes, [originalIntent |-> intent, declaredAt |-> clock,
                                     lastRecommitment |-> clock])
    /\ ret' = [op |-> "registerPurpose", result |-> Len(purposes) + 1]
    /\ UNCHANGED <<server, oliLayer, loaLayer, qemLayer, rplLayer, usageEvents, driftAlerts, systemPaused>>

\* trackUsage(purposeId, event): record the event; every tenth event of the id
\* runs checkDrift, which may trigger an alert and pause the system
TrackUsageUpTo(cap) ==
  \E purposeId \in {UnknownId} \cup DOMAIN purposes, event \in UsageInputs :
    /\ EventCount(usageEvents, MaxPurposes) < cap
    /\ LET events == Append(usageEvents[purposeId], event)
           evs == [usageEvents EXCEPT ![purposeId] = events]
           metrics == calculateDrift(purposes, evs, purposeId)
       IN /\ usageEvents' = evs
          /\ IF Len(events) % 10 = 0 /\ Exceeds(metrics.overallDrift, 3, 10)
               THEN /\ driftAlerts' = Append(driftAlerts, DriftAlert(purposeId, metrics))
                    /\ systemPaused' =
                         (systemPaused \/ alertAction(metrics.overallDrift) = "PAUSE_SYSTEM")
               ELSE UNCHANGED <<driftAlerts, systemPaused>>
    /\ ret' = [op |-> "trackUsage", purposeId |-> purposeId]
    /\ UNCHANGED <<server, oliLayer, loaLayer, qemLayer, rplLayer, purposes>>

TrackUsage == TrackUsageUpTo(MaxEvents)

\* the public calculateDrift(purposeId)
CalculateDrift ==
  \E purposeId \in {UnknownId} \cup DOMAIN purposes :
    /\ ret' = [op |-> "calculateDrift", purposeId |-> purposeId,
               result |-> calculateDrift(purposes, usageEvents, purposeId)]
    /\ UNCHANGED <<server, oliLayer, loaLayer, qemLayer, rplLayer, pdsLayer>>

\* a recommit that closes every open alert, whichever purpose it belongs to
Recommit_ClearsAll ==
  \E purposeId \in DOMAIN purposes, statement \in Statements :
    /\ ~Below(verifyRecommitmentAlignment(purposes[purposeId].originalIntent,
                                          statement), 7, 10)
    /\ purposes' = [purposes EXCEPT ![purposeId].lastRecommitment = clock]
    /\ driftAlerts' = <<>>
    /\ systemPaused' = FALSE
    /\ ret' = [op |-> "recommit", purposeId |-> purposeId,
               statement |-> statement, result |-> TRUE]
    /\ UNCHANGED <<server, oliLayer, loaLayer, qemLayer, rplLayer, usageEvents>>

\* recommit(purposeId, recommitmentStatement)
Recommit ==
  \E purposeId \in {UnknownId} \cup DOMAIN purposes, statement \in Statements :
    /\ IF purposeId \notin DOMAIN purposes
         THEN /\ ret' = [op |-> "recommit", purposeId |-> purposeId,
                         statement |-> statement, result |-> FALSE]
              /\ UNCHANGED pdsLayer
       ELSE IF Below(verifyRecommitmentAlignment(purposes[purposeId].originalIntent,
                                                 statement), 7, 10)
         THEN /\ ret' = [op |-> "recommit", purposeId |-> purposeId,
                         statement |-> statement, result |-> FALSE]
              /\ UNCHANGED pdsLayer
       ELSE /\ purposes' = [purposes EXCEPT ![purposeId].lastRecommitment = clock]
            /\ driftAlerts' = SelectSeq(driftAlerts, LAMBDA a : a.purposeId # purposeId)
            /\ systemPaused' = FALSE
            /\ ret' = [op |-> "recommit", purposeId |-> purposeId,
                       statement |-> statement, result |-> TRUE]
            /\ UNCHANGED usageEvents
    /\ UNCHANGED <<server, oliLayer, loaLayer, qemLayer, rplLayer>>

NextPds ==
  \/ RegisterPurpose
  \/ TrackUsage
  \/ CalculateDrift
  \/ Recommit
  \/ Advance

SpecPds == InitLayers /\ [][NextPds]_vars

\* events between two drift checks of one purpose (events.length % 10)
CheckInterval == 10

\* a sentinel in use: MaxPurposes purposes registered at instant 0, each one
\* usage event short of its first drift check, so that no check has run yet
InUse(intents) ==
  /\ purposes = [id \in 1..MaxPurposes |->
                   [originalIntent |-> intents[id], declaredAt |-> 0,
                    lastRecommitment |-> 0]]
  /\ usageEvents = [id \in 0..MaxPurposes |->
                      IF id = UnknownId THEN <<>>
                      ELSE [i \in 1..(CheckInterval - 1) |-> CHOOSE e \in UsageInputs : TRUE]]
  /\ driftAlerts = <<>>
  /\ systemPaused = FALSE
  /\ ret = [op |-> "trackUsage", purposeId |-> MaxPurposes]

InitInUse ==
  /\ clock = 0
  /\ observer_metrics = [o \in ObserverIds |-> NoRow]
  /\ reasoning_frames = <<>> /\ questions = <<>>
  /\ lagged_outcomes = <<>> /\ usage_events = <<>> /\ NoRegisters
  /\ req = [r \in Slots |-> Idle] /\ nreq = 0 /\ resp = NoResponse
  /\ frames = <<>> /\ dominanceAlerts = <<>> /\ frameworkRotationQueue = <<>>
  /\ outcomes = <<>> /\ lagAlerts = <<>>
  /\ beneficiaryPatterns = [b \in Beneficiaries |-> NoPattern]
  /\ questionRegistry = [d \in QemDomains |-> NoQuestions]
  /\ entropyAlerts = <<>> /\ suppressedQuestions = [d \in QemDomains |-> <<>>]
  /\ OliConstructed
  /\ \E intents \in [1..MaxPurposes -> Intents] : InUse(intents)

TrackUsageInUse ==
  TrackUsageUpTo(MaxPurposes * (CheckInterval - 1) + MaxLaterEvents)

\* a score that is not a number
NaNScore == [kind |-> "NaN", val |-> 0]

RECURSIVE SumDrift(_, _, _)
\* totalDrift over the purposes 1..id, as one quotient; NaN once a drift is NaN
SumDrift(ps, evs, id) ==
  IF id = 0 THEN Quotient(0, 1)
  ELSE LET drift == calculateDrift(ps, evs, id).overallDrift
           rest == SumDrift(ps, evs, id - 1)
       IN IF IsNaN(drift) \/ IsNaN(rest) THEN Quotient(0, 0)
          ELSE Quotient(drift.num * rest.den + rest.num * drift.den, drift.den * rest.den)

\* PDS calculateResilience(): Math.max(0, Math.round((1 - avgDrift) * 100)) over
\* the registered purposes, 100 without any; NaN when the average is NaN
PdsResilience(ps, evs) ==
  LET purposeCount == Len(ps)
      total == SumDrift(ps, evs, purposeCount)
      rounded == Round(100 * (purposeCount * total.den - total.num),
                       purposeCount * total.den)
  IN IF purposeCount = 0 THEN Num(100)
     ELSE IF IsNaN(total) THEN NaNScore
     ELSE Num(IF rounded < 0 THEN 0 ELSE rounded)

PdsCalculateResilience ==
  /\ ret' = [op |-> "pds.calculateResilience", result |-> PdsResilience(purposes, usageEvents)]
  /\ UNCHANGED <<server, oliLayer, loaLayer, qemLayer, rplLayer, pdsLayer>>

NextPdsInUse ==
  \/ TrackUsageInUse
  \/ CalculateDrift
  \/ PdsCalculateResilience
  \/ Recommit
  \/ Advance

SpecPdsInUse == InitInUse /\ [][NextPdsInUse]_vars

\* ===================================================== LaggedOutcomeAttribution
\* Dates of an outcome are hours; detectedAt is a reading of the layer clock.
\* Of an outcome the model keeps what the class computes with: decisionId,
\* beneficiary, lagDays and riskScore.
DedupDays == 7

\* acme's benefits come 200 days (and 12 hours) or 100 days after the decision,
\* zeta's after 5 days
OutcomeInputs ==
  {[beneficiary |-> "acme", decisionDate |-> 0, benefitRealizedDate |-> 200 * HoursPerDay + 12],
   [beneficiary |-> "acme", decisionDate |-> 0, benefitRealizedDate |-> 100 * HoursPerDay],
   [beneficiary |-> "zeta", decisionDate |-> 0, benefitRealizedDate |-> 5 * HoursPerDay]}

\* Math.floor of the difference in days
lagDaysOf(outcome) == (outcome.benefitRealizedDate - outcome.decisionDate) \div HoursPerDay

OutcomesOf(outs, beneficiary) == SelectSeq(outs, LAMBDA o : o.beneficiary = beneficiary)

RECURSIVE SumLag(_)
SumLag(outs) == IF outs = <<>> THEN 0 ELSE Head(outs).lagDays + SumLag(Tail(outs))

RECURSIVE SumLagSquares(_)
SumLagSquares(outs) ==
  IF outs = <<>> THEN 0 ELSE Head(outs).lagDays * Head(outs).lagDays + SumLagSquares(Tail(outs))

\* calculateConsistency(beneficiary) > tenths / 10, for tenths in 1..9: with n
\* outcomes of sum S and sum of squares Q, 1 - stdDev / avgLag > t is
\* n * Q - S * S < (1 - t)^2 * S * S; fewer than two outcomes give 0
ConsistencyExceeds(outs, beneficiary, tenths) ==
  LET mine == OutcomesOf(outs, beneficiary)
      n == Len(mine)
      S == SumLag(mine)
      Q == SumLagSquares(mine)
  IN /\ n >= 2
     /\ S > 0
     /\ 100 * (n * Q - S * S) < (10 - tenths) * (10 - tenths) * S * S

lagDurationScore(lagDays) ==
  IF lagDays > 180 THEN 4
  ELSE IF lagDays > 90 THEN 3
  ELSE IF lagDays > 30 THEN 2
  ELSE IF lagDays > 7 THEN 1
  ELSE 0

frequencyScore(pattern) ==
  IF ~pattern.present THEN 0
  ELSE IF pattern.occurrences > 10 THEN 3
  ELSE IF pattern.occurrences > 5 THEN 2
  ELSE IF pattern.occurrences > 2 THEN 1
  ELSE 0

consistencyScore(pattern, outs, beneficiary) ==
  IF ~(pattern.present /\ pattern.lagSum > 60 * pattern.occurrences) THEN 0
  ELSE IF ConsistencyExceeds(outs, beneficiary, 8) THEN 3
  ELSE IF ConsistencyExceeds(outs, beneficiary, 6) THEN 2
  ELSE IF ConsistencyExceeds(outs, beneficiary, 4) THEN 1
  ELSE 0

Min(a, b) == IF a < b THEN a ELSE b

\* a risk score taken over the pattern and the outcomes as they are once the
\* new outcome is stored
calculateRiskScore_AfterStore(patterns, outs, lagDays, beneficiary) ==
  LET pattern == [present |-> TRUE,
                  occurrences |-> patterns[beneficiary].occurrences + 1,
                  lagSum |-> patterns[beneficiary].lagSum + lagDays,
                  totalRiskScore |-> patterns[beneficiary].totalRiskScore]
      stored == Append(outs, [decisionId |-> Len(outs) + 1, beneficiary |-> beneficiary,
                              lagDays |-> lagDays, riskScore |-> 0])
  IN Min(10, lagDurationScore(lagDays)
               + frequencyScore(pattern)
               + consistencyScore(pattern, stored, beneficiary))

\* calculateRiskScore(lagDays, beneficiary), over the patterns and outcomes as
\* they are before the new outcome is stored
calculateRiskScore(patterns, outs, lagDays, beneficiary) ==
  Min(10, lagDurationScore(lagDays)
            + frequencyScore(patterns[beneficiary])
            + consistencyScore(patterns[beneficiary], outs, beneficiary))

updateBeneficiaryPattern(patterns, beneficiary, lagDays, riskScore) ==
  [patterns EXCEPT ![beneficiary] =
     [present |-> TRUE,
      occurrences |-> @.occurrences + 1,
      lagSum |-> @.lagSum + lagDays,
      totalRiskScore |-> @.totalRiskScore + riskScore]]

RECURSIVE BeneficiaryOrder(_, _)
\* the keys of beneficiaryPatterns in insertion order
BeneficiaryOrder(outs, seen) ==
  IF outs = <<>> THEN <<>>
  ELSE IF Head(outs).beneficiary \in seen THEN BeneficiaryOrder(Tail(outs), seen)
  ELSE <<Head(outs).beneficiary>>
       \o BeneficiaryOrder(Tail(outs), seen \cup {Head(outs).beneficiary})

\* an average of exactly 7 counted as high risk as well
HighRisk_OrEqual(pattern) == pattern.totalRiskScore >= 7 * pattern.occurrences

\* p.totalRiskScore / p.occurrences > 7
HighRisk(pattern) == pattern.totalRiskScore > 7 * pattern.occurrences

DecisionsOf(outs, beneficiary) ==
  LET mine == OutcomesOf(outs, beneficiary)
  IN [i \in 1..Len(mine) |-> mine[i].decisionId]

\* avgLagDays.toFixed(0)
RoundedAvgLag(pattern) ==
  (2 * pattern.lagSum + pattern.occurrences) \div (2 * pattern.occurrences)

lagRiskLevel(pattern) ==
  IF 2 * pattern.totalRiskScore > 17 * pattern.occurrences THEN "HIGH"
  ELSE IF 2 * pattern.totalRiskScore > 15 * pattern.occurrences THEN "MEDIUM"
  ELSE "LOW"

\* the alert triggerLagAlert builds; its pattern text names the beneficiary, the
\* number of affected decisions and the rounded average lag
LagAlert(beneficiary, pattern, affectedDecisions, now) ==
  [pattern |-> <<beneficiary, Len(affectedDecisions), RoundedAvgLag(pattern)>>,
   riskScore |-> Quotient(pattern.totalRiskScore, pattern.occurrences),
   threshold |-> 7,
   detectedAt |-> now,
   affectedDecisions |-> affectedDecisions,
   riskLevel |-> lagRiskLevel(pattern)]

\* an alert of the same pattern text detected within the last seven days
AlertExists(alerts, alert, now) ==
  \E i \in DOMAIN alerts :
    /\ alerts[i].pattern = alert.pattern
    /\ alerts[i].detectedAt * TickDays > now * TickDays - DedupDays

triggerLagAlert(alerts, alert, now) ==
  IF AlertExists(alerts, alert, now) THEN alerts ELSE Append(alerts, alert)

RECURSIVE checkLagPatterns(_, _, _, _, _)
\* the alerts after every high-risk pattern of `order` has been looked at
checkLagPatterns(patterns, outs, order, alerts, now) ==
  IF order = <<>> THEN alerts
  ELSE LET beneficiary == Head(order)
           affectedDecisions == DecisionsOf(outs, beneficiary)
       IN IF HighRisk(patterns[beneficiary]) /\ Len(affectedDecisions) >= 3
            THEN checkLagPatterns(patterns, outs, Tail(order),
                   triggerLagAlert(alerts,
                     LagAlert(beneficiary, patterns[beneficiary], affectedDecisions, now),
                     now),
                   now)
            ELSE checkLagPatterns(patterns, outs, Tail(order), alerts, now)

\* trackOutcome(outcome): score the outcome, store it, update the pattern of its
\* beneficiary, then checkLagPatterns
TrackOutcomeOf(inputs, cap) ==
  \E outcome \in inputs :
    /\ Len(outcomes) < cap
    /\ LET lagDays == lagDaysOf(outcome)
           riskScore == calculateRiskScore(beneficiaryPatterns, outcomes, lagDays,
                                           outcome.beneficiary)
           outs == Append(outcomes,
                     [decisionId |-> Len(outcomes) + 1, beneficiary |-> outcome.beneficiary,
                      lagDays |-> lagDays, riskScore |-> riskScore])
           patterns == updateBeneficiaryPattern(beneficiaryPatterns, outcome.beneficiary,
                                                lagDays, riskScore)
       IN /\ outcomes' = outs
          /\ beneficiaryPatterns' = patterns
          /\ lagAlerts' = checkLagPatterns(patterns, outs, BeneficiaryOrder(outs, {}),
                                           lagAlerts, clock)
    /\ ret' = [op |-> "trackOutcome"]
    /\ UNCHANGED <<server, oliLayer, rplLayer, pdsLayer, qemLayer>>

TrackOutcome == TrackOutcomeOf(OutcomeInputs, MaxOutcomes)

\* LOA calculateResilience(): 100 minus the percentage of outcomes with
\* riskScore > 7, rounded, never below 0
LoaResilience(outs) ==
  LET high == Len(SelectSeq(outs, LAMBDA o : o.riskScore > 7))
      total == Len(outs)
  IN IF total = 0 THEN 100
     ELSE (200 * (total - high) + total) \div (2 * total)

LoaCalculateResilience ==
  /\ ret' = [op |-> "loa.calculateResilience", result |-> LoaResilience(outcomes)]
  /\ UNCHANGED <<server, oliLayer, rplLayer, pdsLayer, loaLayer, qemLayer>>

NextLoa ==
  \/ TrackOutcome
  \/ LoaCalculateResilience
  \/ Advance

SpecLoa == InitLayers /\ [][NextLoa]_vars

\* outcomes whose dates the caller got in any order: on top of OutcomeInputs a
\* benefit realized 12 hours, and one realized 40 days, before its decision
PredatedInputs ==
  {[beneficiary |-> "zeta", decisionDate |-> 12, benefitRealizedDate |-> 0],
   [beneficiary |-> "acme", decisionDate |-> 40 * HoursPerDay, benefitRealizedDate |-> 0]}

TrackOutcomeAnyDates == TrackOutcomeOf(OutcomeInputs \cup PredatedInputs, MaxDatedOutcomes)

NextLoaAnyDates ==
  \/ TrackOutcomeAnyDates
  \/ LoaCalculateResilience
  \/ Advance

SpecLoaAnyDates == InitLayers /\ [][NextLoaAnyDates]_vars

\* ===================================================== QuestionEntropyMonitor
\* askedAt and the layer's clock readings are days.
DaysPerWeek == 7
Now == clock * TickDays

RECURSIVE CountIn(_, _)
\* the questions of `asked` whose askedAt is in the set `days`
CountIn(asked, days) ==
  IF days = {} THEN 0
  ELSE LET a == CHOOSE x \in days : TRUE
       IN asked[a] + CountIn(asked, days \ {a})

QuestionCount(asked) == CountIn(asked, AskedAts)

\* calculateEntropy(domain) at time now: with fewer than 20 questions the zero
\* metrics; else the weekly rates of the questions asked 4 to 12 weeks ago and
\* of those asked in the last 4 weeks, and the drop between them in percent
calculateEntropy(registry, domain, now) ==
  LET asked == registry[domain]
      twelveWeeksAgo == now - 12 * DaysPerWeek
      fourWeeksAgo == now - 4 * DaysPerWeek
      historical == CountIn(asked, {a \in AskedAts : a < fourWeeksAgo /\ a >= twelveWeeksAgo})
      recent == CountIn(asked, {a \in AskedAts : a >= fourWeeksAgo})
      historicalFrequency == Quotient(historical, 12)
      currentFrequency == Quotient(recent, 4)
      gapScore == IF historical > 0
                    THEN Quotient(100 * (historical - 3 * recent), historical)
                    ELSE Quotient(0, 1)
  IN IF QuestionCount(asked) < 20
       THEN [domain |-> domain, historicalFrequency |-> Quotient(0, 1),
             currentFrequency |-> Quotient(0, 1), gapScore |-> Quotient(0, 1),
             trend |-> "STABLE"]
       ELSE [domain |-> domain, historicalFrequency |-> historicalFrequency,
             currentFrequency |-> currentFrequency, gapScore |-> gapScore,
             trend |-> IF Exceeds(gapScore, 10, 1) THEN "DROPPING"
                       ELSE IF Below(gapScore, -10, 1) THEN "RISING"
                       ELSE "STABLE"]

\* the templates of the two domains, by their first question
generateMissingQuestions(domain) ==
  IF domain = "vendor-oversight"
    THEN <<"Who audits the auditors?", "conflicts of interest", "independently verified",
           "fail to meet SLAs">>
  ELSE IF domain = "financial-controls"
    THEN <<"override authority", "override logs", "independent financial audit",
           "budget reallocations">>
  ELSE <<"What questions should we be asking about this domain?",
         "Who benefits from not asking certain questions?",
         "What assumptions are we not challenging?">>

entropyRiskLevel(gapScore) ==
  IF Exceeds(gapScore, 75, 1) THEN "HIGH"
  ELSE IF Exceeds(gapScore, 60, 1) THEN "MEDIUM"
  ELSE "LOW"

\* the alert triggerEntropyAlert builds
EntropyAlert(domain, metrics, now) ==
  [domain |-> domain, gapScore |-> metrics.gapScore, threshold |-> 50,
   detectedAt |-> now, missingQuestions |-> generateMissingQuestions(domain),
   riskLevel |-> entropyRiskLevel(metrics.gapScore)]

\* a registerQuestion that sets the domain's list to the new question alone
RegisterQuestionUpTo_Replaces(givens, cap) ==
  \E domain \in {"vendor-oversight"}, given \in givens :
    /\ QuestionCount(questionRegistry[domain]) < cap
    /\ LET askedAt == IF given.kind = "number" THEN given.val ELSE Now
           registry == [questionRegistry EXCEPT
                          ![domain] = [a \in AskedAts |-> IF a = askedAt THEN 1 ELSE 0]]
       IN /\ questionRegistry' = registry
          /\ UNCHANGED <<entropyAlerts, suppressedQuestions>>
    /\ ret' = [op |-> "registerQuestion", domain |-> domain]
    /\ UNCHANGED <<server, oliLayer, rplLayer, pdsLayer, loaLayer>>

\* registerQuestion(question): askedAt defaults to the time of the call; every
\* tenth question of the domain runs checkEntropy
RegisterQuestionUpTo(givens, cap) ==
  \E domain \in {"vendor-oversight"}, given \in givens :
    /\ QuestionCount(questionRegistry[domain]) < cap
    /\ LET askedAt == IF given.kind = "number" THEN given.val ELSE Now
           registry == [questionRegistry EXCEPT ![domain][askedAt] = @ + 1]
           metrics == calculateEntropy(registry, domain, Now)
       IN /\ questionRegistry' = registry
          /\ IF QuestionCount(registry[domain]) % 10 = 0 /\ Exceeds(metrics.gapScore, 50, 1)
               THEN /\ entropyAlerts' = Append(entropyAlerts, EntropyAlert(domain, metrics, clock))
                    /\ suppressedQuestions' =
                         [suppressedQuestions EXCEPT ![domain] = generateMissingQuestions(domain)]
               ELSE UNCHANGED <<entropyAlerts, suppressedQuestions>>
    /\ ret' = [op |-> "registerQuestion", domain |-> domain]
    /\ UNCHANGED <<server, oliLayer, rplLayer, pdsLayer, loaLayer>>

RegisterQuestion == RegisterQuestionUpTo({NoNum, Num(Backdated)}, MaxQuestions)

\* the public calculateEntropy(domain)
CalculateEntropy ==
  \E domain \in QemDomains :
    /\ ret' = [op |-> "calculateEntropy", domain |-> domain,
               result |-> calculateEntropy(questionRegistry, domain, Now)]
    /\ UNCHANGED <<server, oliLayer, rplLayer, pdsLayer, loaLayer, qemLayer>>

RECURSIVE SumGap(_, _, _)
\* totalGapScore over the domains, as one quotient
SumGap(registry, domains, now) ==
  IF domains = {} THEN Quotient(0, 1)
  ELSE LET domain == CHOOSE d \in domains : TRUE
           gap == calculateEntropy(registry, domain, now).gapScore
           rest == SumGap(registry, domains \ {domain}, now)
       IN Quotient(gap.num * rest.den + rest.num * gap.den, gap.den * rest.den)

\* QEM calculateResilience(): Math.max(0, Math.round(100 - avgGapScore)) over
\* the domains that have a question; 100 without any
QemResilience(registry, now) ==
  LET domains == {d \in QemDomains : QuestionCount(registry[d]) > 0}
      domainCount == Cardinality(domains)
      total == SumGap(registry, domains, now)
      rounded == Round(100 * domainCount * total.den - total.num, domainCount * total.den)
  IN IF domainCount = 0 THEN 100
     ELSE IF rounded < 0 THEN 0 ELSE rounded

QemCalculateResilience ==
  /\ ret' = [op |-> "qem.calculateResilience",
             result |-> QemResilience(questionRegistry, Now)]
  /\ UNCHANGED <<server, oliLayer, rplLayer, pdsLayer, loaLayer, qemLayer>>

NextQem ==
  \/ RegisterQuestion
  \/ CalculateEntropy
  \/ QemCalculateResilience
  \/ Advance

SpecQem == InitLayers /\ [][NextQem]_vars

\* a monitor in use: RecordedQuestions questions of vendor-oversight registered
\* at instant 0, `historical` of them backdated into the baseline weeks and the
\* rest older than the twelve weeks looked at. The check after the tenth
\* question found fewer than 20 and raised nothing
RecordedHistorical == {12, 15}
InitQemInUse ==
  /\ clock = 0
  /\ observer_metrics = [o \in ObserverIds |-> NoRow]
  /\ reasoning_frames = <<>> /\ questions = <<>>
  /\ lagged_outcomes = <<>> /\ usage_events = <<>> /\ NoRegisters
  /\ req = [r \in Slots |-> Idle] /\ nreq = 0 /\ resp = NoResponse
  /\ frames = <<>> /\ dominanceAlerts = <<>> /\ frameworkRotationQueue = <<>>
  /\ purposes = <<>> /\ usageEvents = [id \in 0..MaxPurposes |-> <<>>]
  /\ driftAlerts = <<>> /\ systemPaused = FALSE
  /\ outcomes = <<>> /\ lagAlerts = <<>>
  /\ beneficiaryPatterns = [b \in Beneficiaries |-> NoPattern]
  /\ \E historical \in RecordedHistorical :
       questionRegistry =
         [d \in QemDomains |->
            IF d = "vendor-oversight"
              THEN [NoQuestions EXCEPT ![Backdated] = historical,
                                       ![Older] = RecordedQuestions - historical]
              ELSE NoQuestions]
  /\ entropyAlerts = <<>> /\ suppressedQuestions = [d \in QemDomains |-> <<>>]
  /\ OliConstructed
  /\ ret = [op |-> "registerQuestion", domain |-> "vendor-oversight"]

RegisterQuestionInUse ==
  RegisterQuestionUpTo({NoNum, Num(Backdated), Num(Older)},
                       RecordedQuestions + MaxLaterQuestions)

NextQemInUse ==
  \/ RegisterQuestionInUse
  \/ CalculateEntropy
  \/ Advance

SpecQemInUse == InitQemInUse /\ [][NextQemInUse]_vars

\* the monitor in use with time passing and its reads being served: the class
\* starts no timer, so nothing but a caller's registerQuestion runs checkEntropy
SpecQemLive == SpecQemInUse /\ WF_vars(Advance) /\ WF_vars(CalculateEntropy)

\* ========================================================== ObserverLoadIndex
\* correctionRate and contradictionExposure are hundredths; startTime is a
\* reading of the layer clock and duration is hours.
\* Math.random() * 0.6 and Math.random() * 0.8: any value of [0, 0.6) and of
\* [0, 0.8); one value of each bucket the score tells apart
CorrectionRates == {0, 20, 30, 55}
ContradictionExposures == {0, 50, 75}

initializeObserver == [NoObserver EXCEPT !.present = TRUE]

\* no method writes lastBreaks: every observer is without a recorded break, and
\* getHoursSinceLastBreak returns its default
DefaultHoursSinceBreak == 72
getHoursSinceLastBreak(observerId) == DefaultHoursSinceBreak

\* the four bucketed sub-scores of calculateFatigueScore
FatigueScoreOf(auditsReviewed, correctionRate, contradictionExposure, hoursSinceBreak) ==
  Min(10,
      (IF auditsReviewed > 20 THEN 3
       ELSE IF auditsReviewed > 10 THEN 2
       ELSE IF auditsReviewed > 5 THEN 1 ELSE 0)
      + (IF correctionRate > 50 THEN 3
         ELSE IF correctionRate > 25 THEN 2
         ELSE IF correctionRate > 10 THEN 1 ELSE 0)
      + (IF contradictionExposure > 70 THEN 2
         ELSE IF contradictionExposure > 40 THEN 1 ELSE 0)
      + (IF hoursSinceBreak > 48 THEN 2
         ELSE IF hoursSinceBreak > 24 THEN 1 ELSE 0))

calculateFatigueScore(observerId, metrics) ==
  FatigueScoreOf(metrics.auditsReviewed, metrics.correctionRate,
                 metrics.contradictionExposure, getHoursSinceLastBreak(observerId))

calculateFatigueRisk(observerId, metrics) ==
  LET score == calculateFatigueScore(observerId, metrics)
  IN IF score >= 7 THEN "high" ELSE IF score >= 4 THEN "medium" ELSE "low"

calculateCooldownDuration(observerId, metrics) ==
  LET score == calculateFatigueScore(observerId, metrics)
  IN IF score >= 9 THEN 72 ELSE IF score >= 7 THEN 48 ELSE 24

\* updates made so far: auditsReviewed counts the updates of an observer
UpdateCount == observers["ana"].auditsReviewed + observers["ben"].auditsReviewed

\* updateObserverLoad(observerId, task): count the review, draw the two rates,
\* derive fatigueRisk; on 'high' triggerFatigueAlert pushes an alert and a
\* cooldown entry
UpdateObserverLoadUpTo(cap) ==
  \E observerId \in OliObservers, cr \in CorrectionRates, ce \in ContradictionExposures :
    /\ UpdateCount < cap
    /\ LET old == IF observers[observerId].present THEN observers[observerId]
                  ELSE initializeObserver
           drawn == [old EXCEPT !.auditsReviewed = @ + 1, !.correctionRate = cr,
                                !.contradictionExposure = ce]
           metrics == [drawn EXCEPT !.fatigueRisk = calculateFatigueRisk(observerId, drawn)]
       IN /\ observers' = [observers EXCEPT ![observerId] = metrics]
          /\ IF metrics.fatigueRisk = "high"
               THEN /\ loadAlerts' = Append(loadAlerts,
                         [observerId |-> observerId,
                          fatigueScore |-> calculateFatigueScore(observerId, metrics),
                          triggeredAt |-> clock, action |-> "MANDATORY_COOLDOWN"])
                    /\ cooldownQueue' = Append(cooldownQueue,
                         [observerId |-> observerId, startTime |-> clock,
                          duration |-> calculateCooldownDuration(observerId, metrics),
                          reason |-> "high_fatigue_risk"])
               ELSE UNCHANGED <<loadAlerts, cooldownQueue>>
    /\ ret' = [op |-> "updateObserverLoad", observerId |-> observerId]
    /\ UNCHANGED <<server, rplLayer, pdsLayer, loaLayer, qemLayer>>

UpdateObserverLoad == UpdateObserverLoadUpTo(MaxUpdates)

\* OLI calculateResilience(): 100 minus twice the percentage of observers at
\* 'high', rounded, never below 0
OliResilience(obs) ==
  LET present == {o \in OliObservers : obs[o].present}
      high == Cardinality({o \in present : obs[o].fatigueRisk = "high"})
      total == Cardinality(present)
      rounded == IF total = 0 THEN 100
                 ELSE (2 * (100 * total - 200 * high) + total) \div (2 * total)
  IN IF rounded < 0 THEN 0 ELSE rounded

OliCalculateResilience ==
  /\ ret' = [op |-> "oli.calculateResilience", result |-> OliResilience(observers)]
  /\ UNCHANGED <<server, rplLayer, pdsLayer, loaLayer, qemLayer, oliLayer>>

NextOli ==
  \/ UpdateObserverLoad
  \/ OliCalculateResilience
  \/ Advance

SpecOli == InitLayers /\ [][NextOli]_vars

\* an index in use: observer ana has reviewed RecordedAudits audits, every one
\* with both rates drawn as 0, so that the score never passed 4 and no alert
\* was raised
InitOliInUse ==
  /\ clock = 0
  /\ observer_metrics = [o \in ObserverIds |-> NoRow]
  /\ reasoning_frames = <<>> /\ questions = <<>>
  /\ lagged_outcomes = <<>> /\ usage_events = <<>> /\ NoRegisters
  /\ req = [r \in Slots |-> Idle] /\ nreq = 0 /\ resp = NoResponse
  /\ frames = <<>> /\ dominanceAlerts = <<>> /\ frameworkRotationQueue = <<>>
  /\ purposes = <<>> /\ usageEvents = [id \in 0..MaxPurposes |-> <<>>]
  /\ driftAlerts = <<>> /\ systemPaused = FALSE
  /\ outcomes = <<>> /\ lagAlerts = <<>>
  /\ beneficiaryPatterns = [b \in Beneficiaries |-> NoPattern]
  /\ questionRegistry = [d \in QemDomains |-> NoQuestions]
  /\ entropyAlerts = <<>> /\ suppressedQuestions = [d \in QemDomains |-> <<>>]
  /\ observers =
       [o \in OliObservers |->
          IF o = "ana"
            THEN [initializeObserver EXCEPT !.auditsReviewed = RecordedAudits,
                                            !.fatigueRisk = "medium"]
            ELSE NoObserver]
  /\ loadAlerts = <<>>
  /\ cooldownQueue = <<>>
  /\ ret = [op |-> "updateObserverLoad", observerId |-> "ana"]

UpdateObserverLoadInUse == UpdateObserverLoadUpTo(RecordedAudits + MaxLaterUpdates)

NextOliInUse ==
  \/ UpdateObserverLoadInUse
  \/ OliCalculateResilience
  \/ Advance

SpecOliInUse == InitOliInUse /\ [][NextOliInUse]_vars

\* ------------------------------------------------------------- read routes
\* The GET routes answer in one step from the rows they select; the store they
\* read may hold rows of earlier runs.
ReadRoles == {"observer", "analyst", "admin"}
ReadTokens == {"obs", NoToken}
NoResult == [found |-> FALSE]

Answer(route, token, status, kind, result) ==
  [route |-> route, token |-> token, body |-> NoBody, row |-> NoRow,
   status |-> status, kind |-> kind, remaining |-> 0, result |-> result]

\* a GET route behind authMiddleware that answers 200 with `result`
Get(route, result) ==
  \E token \in ReadTokens :
    /\ LET a == authMiddleware(ReadRoles, token)
       IN resp' = IF a.status # 0 THEN Answer(route, token, a.status, a.kind, NoResult)
                  ELSE Answer(route, token, 200, "ok", result)
    /\ UNCHANGED <<clock, tables, req, nreq, layers>>

\* GET /api/v2/rpl/dominance: per framework of the frames used in the last 30
\* days its share of the summed confidence_weight in percent, 0 when the sum is
\* 0; weights are hundredths
\* last_used > NOW() - INTERVAL '30 days', in whole days of CooldownMs
RecentFrames(rows, now) ==
  SelectSeq(rows, LAMBDA f : (now - f.last_used) \div CooldownMs < 30)
RECURSIVE StoredWeight(_, _)
StoredWeight(rows, fws) ==
  IF rows = <<>> THEN 0
  ELSE (IF Head(rows).framework \in fws THEN Head(rows).confidence_weight ELSE 0)
       + StoredWeight(Tail(rows), fws)
DominanceReport(rows, now) ==
  LET recent == RecentFrames(rows, now)
      found == {recent[i].framework : i \in DOMAIN recent}
      totalWeight == StoredWeight(recent, found)
  IN [dominance |->
        [fw \in found |->
           [weight |-> StoredWeight(recent, {fw}),
            percentage |-> IF totalWeight > 0
                             THEN Quotient(100 * StoredWeight(recent, {fw}), totalWeight)
                             ELSE Quotient(0, 1)]],
      total_weight |-> totalWeight]

GetRplDominance == Get("rpl/dominance", DominanceReport(reasoning_frames, clock))

\* GET /api/v2/rpl/alerts: the RPL rows of drift_alerts that are not resolved
GetRplAlerts ==
  Get("rpl/alerts",
      [alerts |-> SelectSeq(drift_alerts,
                            LAMBDA a : a.layer = "RPL" /\ a.resolved_at = NULL)])

\* GET /api/v2/resilience/score: the row calculated last, or the default scores
DefaultScores ==
  [overall_score |-> 100, rpl_score |-> 100, qem_score |-> 100, loa_score |-> 100,
   oli_score |-> 100, pds_score |-> 100]
LatestScores(rows) ==
  IF rows = <<>> THEN DefaultScores
  ELSE LET last == CHOOSE i \in DOMAIN rows :
                     \A j \in DOMAIN rows : rows[j].calculated_at <= rows[i].calculated_at
       IN [overall_score |-> rows[last].overall_score, rpl_score |-> rows[last].rpl_score,
           qem_score |-> rows[last].qem_score, loa_score |-> rows[last].loa_score,
           oli_score |-> rows[last].oli_score, pds_score |-> rows[last].pds_score]

GetResilienceScore == Get("resilience/score", LatestScores(resilience_scores))

\* GET /api/v2/pds/drift-status/:purposeId: 404 for an id without row in
\* system_purposes; else the drift magnitude of the 20 events selected: 0 under
\* 10 events, else Math.random() * 40
RegisteredPurpose == "p1"
UnregisteredPurpose == "p0"
\* values Math.random() * 40 takes, in percent
DriftDraws == {0, 20, 35}
EventsOf(rows, purposeId) == SelectSeq(rows, LAMBDA e : e.purpose_id = purposeId)
DriftStatus(rows, purposeId, random) ==
  LET eventCount == Min(20, Len(EventsOf(rows, purposeId)))
      driftMagnitude == IF eventCount < 10 THEN 0 ELSE random
  IN [found |-> TRUE, purpose_id |-> purposeId, drift_magnitude |-> driftMagnitude,
      threshold |-> 30, drift_detected |-> driftMagnitude > 30,
      event_count |-> eventCount]

GetPdsDriftStatus ==
  \E token \in ReadTokens, purposeId \in {RegisteredPurpose, UnregisteredPurpose},
     random \in DriftDraws :
    /\ LET a == authMiddleware(ReadRoles, token)
           route == "pds/drift-status"
       IN resp' =
            IF a.status # 0 THEN Answer(route, token, a.status, a.kind, NoResult)
            ELSE IF \A i \in DOMAIN system_purposes : system_purposes[i].id # purposeId
              THEN Answer(route, token, 404, "Purpose not found",
                          [NoResult EXCEPT !.found = FALSE] @@ [purpose_id |-> purposeId])
            ELSE Answer(route, token, 200, "ok", DriftStatus(usage_events, purposeId, random))
    /\ UNCHANGED <<clock, tables, req, nreq, layers>>

\* pds/track-usage bodies of a valid provenance: without purposeId, with the id
\* of a registered purpose and with an id that was never registered
PdsBodies ==
  {[Body(Observed, NoNum, "ana", LowLoad) EXCEPT !.purposeId = id] :
     id \in {MISSING, RegisteredPurpose, UnregisteredPurpose}}

PdsTrackUsage_ReceiveFor(r) == PdsTrackUsage_ReceiveAny(r, PdsBodies)

\* usage events of the registered purpose found in the store at start
StoredEventCounts == {0, 9}
StoredEvent ==
  [purpose_id |-> RegisteredPurpose, event_type |-> "audit"] @@ ProvenanceOf(Body(Observed, NoNum, "ana", LowLoad))
StoredFrameRow(framework, weight) ==
  [framework |-> framework, confidence_weight |-> weight, last_used |-> 0,
   user_id |-> "ana"] @@ ProvenanceOf(Body(Observed, NoNum, "ana", LowLoad))
StoredFrameSets ==
  {<<>>,
   <<StoredFrameRow("Cost_Benefit", 0)>>,
   <<StoredFrameRow("Cost_Benefit", 95), StoredFrameRow("Devil_Lens_Critique", 0)>>}
StoredAlertSets ==
  {<<>>,
   <<[layer |-> "RPL", drift_magnitude |-> 8000, threshold_exceeded |-> 7000,
      detected_at |-> 0, resolved_at |-> NULL]>>}
StoredScoreSets ==
  {<<>>,
   <<[overall_score |-> 64, rpl_score |-> 20, qem_score |-> 100, loa_score |-> 100,
      oli_score |-> 100, pds_score |-> 0, calculated_at |-> 0]>>}

\* a server started on a store in use: one purpose registered
InitReads ==
  /\ clock = 0
  /\ observer_metrics = [o \in ObserverIds |-> NoRow]
  /\ reasoning_frames \in StoredFrameSets
  /\ questions = <<>>
  /\ lagged_outcomes = <<>>
  /\ \E n \in StoredEventCounts : usage_events = [i \in 1..n |-> StoredEvent]
  /\ system_purposes = <<[id |-> RegisteredPurpose, last_recommitment |-> 0]>>
  /\ drift_alerts \in StoredAlertSets
  /\ resilience_scores \in StoredScoreSets
  /\ req = [r \in Slots |-> Idle] /\ nreq = 0 /\ resp = NoResponse
  /\ frames = <<>> /\ dominanceAlerts = <<>> /\ frameworkRotationQueue = <<>>
  /\ purposes = <<>> /\ usageEvents = [id \in 0..MaxPurposes |-> <<>>]
  /\ driftAlerts = <<>> /\ systemPaused = FALSE
  /\ outcomes = <<>> /\ lagAlerts = <<>>
  /\ beneficiaryPatterns = [b \in Beneficiaries |-> NoPattern]
  /\ questionRegistry = [d \in QemDomains |-> NoQuestions]
  /\ entropyAlerts = <<>> /\ suppressedQuestions = [d \in QemDomains |-> <<>>]
  /\ OliConstructed
  /\ ret = NoCall

NextReads ==
  \/ GetRplDominance
  \/ GetRplAlerts
  \/ GetResilienceScore
  \/ GetPdsDriftStatus
  \/ \E r \in Slots : PdsTrackUsage_ReceiveFor(r)
  \/ \E r \in Slots : PdsTrackUsage_Insert(r)

SpecReads == InitReads /\ [][NextReads]_vars

\* ------------------------------------------------ integrated resilience score
\* The cross-layer score: resilience = w1 * (1 - dominance) + w2 * entropy_norm
\* + w3 * (1 - HHI) + w4 * (1 - fatigue / 10) + w5 * (1 - drift), all weights
\* 0.20. The five metrics are hundredths (fatigue: hundredths of its 10 points),
\* the weights hundredths, the score a quotient in percent.
Metrics ==
  [dominance : {0, 73, 100}, entropy_norm : {0, 65, 100}, HHI : {0, 38, 100},
   fatigue : {0, 75, 100}, drift : {0, 15, 100}]

\* the health score of each layer, in percent
LayerScores(m) ==
  <<100 - m.dominance, m.entropy_norm, 100 - m.HHI, 100 - m.fatigue, 100 - m.drift>>

RECURSIVE WeightedSum(_, _)
WeightedSum(weights, scores) ==
  IF scores = <<>> THEN 0
  ELSE Head(weights) * Head(scores) + WeightedSum(Tail(weights), Tail(scores))

\* weights of 0.25 each
IntegratedResilience_QuarterWeights(scores) ==
  Quotient(WeightedSum(<<25, 25, 25, 25, 25>>, scores), 100)

IntegratedResilience(scores) ==
  Quotient(WeightedSum(<<20, 20, 20, 20, 20>>, scores), 100)

IntegratedResilienceScore ==
  \E m \in Metrics :
    /\ ret' = [op |-> "integratedResilience", scores |-> LayerScores(m),
               result |-> IntegratedResilience(LayerScores(m))]
    /\ UNCHANGED <<server, oliLayer, rplLayer, pdsLayer, loaLayer, qemLayer>>

NextScore == IntegratedResilienceScore

SpecScore == InitLayers /\ [][NextScore]_vars

\* ============================================================= properties
Rejections == {400, 401, 403, 429}

\* the gate resumes in this step for the request in slot r
GateResumes(r) == req[r].pc = "gate" /\ req'[r].pc # "gate"
\* ... and refuses it with `kind`
GateRefuses(r, kind) == GateResumes(r) /\ req'[r].pc = "idle" /\ resp'.kind = kind

\* rpl/track requests of actor u that the gate has admitted and that are still
\* in flight
AdmittedInFlight(u) ==
  Cardinality({r \in Slots :
    req[r].pc = "insert" /\ req[r].route = "rpl/track" /\ req[r].token = u})

\* C1: check and increment are one atomic step per actor: the stored
\* concurrent audits of an actor plus the requests of that actor admitted and in
\* flight never exceed the role limit, and a request that finds the counter at
\* the limit is refused with 429.
C1_AtomicAdmission ==
  /\ \A u \in ObserverIds :
       observer_metrics[u].present =>
         observer_metrics[u].concurrent_audits + AdmittedInFlight(u)
           <= MAX_CONCURRENT_AUDITS[RoleOf(u)]
  /\ \A r \in Slots :
       (req[r].pc = "insert" /\ req[r].route = "rpl/track" /\ req[r].row.present) =>
         req[r].row.concurrent_audits < MAX_CONCURRENT_AUDITS[RoleOf(req[r].token)]

\* C2: a cooldown that is active (cooldown_until in the future) is never cleared
\* or shortened by any operation: it ends only by expiry.
C2_CooldownEndsOnlyByExpiry ==
  [][\A o \in ObserverIds :
       (observer_metrics[o].present /\ observer_metrics[o].cooldown_until > clock) =>
         /\ observer_metrics'[o].present
         /\ observer_metrics'[o].cooldown_until >= observer_metrics[o].cooldown_until]_vars

CooldownActiveAt(row, now) ==
  row.present /\ row.cooldown_until # NULL /\ now < row.cooldown_until

\* C3: for an actor with a row, the gate refuses with CooldownActive (429)
\* exactly when now < cooldownUntil, and then reports
\* ceil((cooldownUntil - now) / 60000) remaining minutes, which is at least 1
\* (now is a reading of the clock taken while the gate runs).
C3_CooldownRejection ==
  [][\A r \in Slots : GateResumes(r) =>
       IF CooldownActiveAt(req[r].row, clock)
         THEN /\ GateRefuses(r, "CooldownActive")
              /\ resp'.status = 429
              /\ \E now \in {clock, clock'} :
                   resp'.remaining = Ceil(req[r].row.cooldown_until - now, MsPerMinute)
              /\ resp'.remaining >= 1
         ELSE ~GateRefuses(r, "CooldownActive")]_vars

\* the first admission check, in the order CooldownActive, ConcurrencyExceeded,
\* ConfidenceCapExceeded, UnauthorizedScope, that request q fails at `now`
FirstFailingCheck(q, now) ==
  IF CooldownActiveAt(q.row, now) THEN "CooldownActive"
  ELSE IF q.row.present
          /\ q.row.concurrent_audits >= MAX_CONCURRENT_AUDITS[RoleOf(q.token)]
    THEN "ConcurrencyExceeded"
  ELSE IF q.body.confidenceWeight.kind = "number" /\ q.body.confidenceWeight.val > 950
    THEN "ConfidenceCapExceeded"
  ELSE IF q.body.dataScope = "simulated" /\ RoleOf(q.token) # "admin"
    THEN "UnauthorizedScope"
  ELSE "none"

AdmissionStatus(kind) ==
  CASE kind = "CooldownActive" -> 429
    [] kind = "ConcurrencyExceeded" -> 429
    [] kind = "ConfidenceCapExceeded" -> 400
    [] OTHER -> 403

\* C4: the gate's rejection is that of the first failing check in the order
\* CooldownActive, ConcurrencyExceeded, ConfidenceCapExceeded, UnauthorizedScope;
\* a request passes the gate only if all four checks pass.
C4_FirstFailingCheck ==
  [][\A r \in Slots : GateResumes(r) =>
       LET first == FirstFailingCheck(req[r], clock)
       IN IF first = "none"
            THEN \/ req'[r].pc = "insert"
                 \/ /\ req'[r].pc = "idle"
                    /\ resp'.kind \in {"Invalid data_scope", "Invalid evidence_type",
                                       "Invalid origin"}
            ELSE /\ GateRefuses(r, first)
                 /\ resp'.status = AdmissionStatus(first)]_vars

\* reached: a request in cooldown, at its concurrency limit, above the
\* confidence cap and with an unauthorized scope is refused with CooldownActive
C4_Witness ==
  /\ resp.kind = "CooldownActive"
  /\ resp.row.concurrent_audits >= MAX_CONCURRENT_AUDITS[RoleOf(resp.token)]
  /\ resp.body.confidenceWeight = Num(951)
  /\ resp.body.dataScope = "simulated"
  /\ RoleOf(resp.token) = "analyst"

\* this step sends a response
Responds ==
  \/ nreq' = nreq + 1 /\ req' = req
  \/ \E r \in Slots : req[r].pc # "idle" /\ req'[r].pc = "idle"

\* C5: a step that rejects a submission (400, 401, 403 or 429) leaves every
\* table as it was, and a step that changes a table answers 200 or 201.
C5_RejectionWritesNothing ==
  [][/\ (Responds /\ resp'.status \in Rejections) => tables' = tables
     /\ tables' # tables => (Responds /\ resp'.status \in {200, 201})]_vars

\* reached: rows are stored and a later rpl/track submission that passed the gate
\* was rejected by validateDataScope
C5_Witness ==
  /\ resp.route = "rpl/track" /\ resp.status = 400 /\ resp.kind = "Invalid origin"
  /\ \E o \in ObserverIds : observer_metrics[o].cooldown_until # NULL

Rows(table) == {table[i] : i \in 1..Len(table)}

\* C6: every recorded ReasoningFrame has confidenceWeight in [0, 0.95], whether
\* it was stored by POST /api/v2/rpl/track or by trackReasoning: no frame above
\* the cap is ever stored.
C6_ConfidenceCapped ==
  /\ \A f \in Rows(reasoning_frames) : f.confidence_weight \in 0..95
  /\ \A f \in Rows(frames) : f.confidenceWeight \in 0..MAX_CONFIDENCE_WEIGHT

\* C7: every recorded submission whose data_scope is simulated was made by an
\* admin, on every write route.
C7_SimulatedOnlyByAdmin ==
  /\ \A f \in Rows(reasoning_frames) :
       f.data_scope = "simulated" => RoleOf(f.user_id) = "admin"
  /\ \A x \in Rows(questions) :
       x.data_scope = "simulated" => RoleOf(x.asked_by) = "admin"
  /\ (resp.status \in {200, 201} /\ resp.body.dataScope = "simulated") =>
       RoleOf(resp.token) = "admin"

ValidProvenance(ds, et, og) ==
  /\ ds \in {"inferred", "observed", "simulated"}
  /\ et \in {"direct", "proxy", "estimated"}
  /\ og \notin {MISSING, "", "   "}

RowValid(x) == ValidProvenance(x.data_scope, x.evidence_type, x.origin)
BodyValid(b) == ValidProvenance(b.dataScope, b.evidenceType, b.origin)

EveryRowValid ==
  /\ \A o \in ObserverIds : observer_metrics[o].present => RowValid(observer_metrics[o])
  /\ \A x \in Rows(reasoning_frames) \cup Rows(questions)
             \cup Rows(lagged_outcomes) \cup Rows(usage_events) : RowValid(x)

DriftOfLastAlert(ps, evs, alerts) ==
  calculateDrift(ps, evs, alerts[Len(alerts)].purposeId).overallDrift

C10_RejectedRecommit ==
  [][(/\ ret'.op = "recommit"
      /\ \/ ret'.purposeId \notin DOMAIN purposes
         \/ LET original == extractKeywords(purposes[ret'.purposeId].originalIntent)
                overlap == OverlapCount(original, extractKeywords(ret'.statement))
            IN Len(original) > 0 /\ 10 * overlap < 7 * Len(original))
     => /\ ret'.result = FALSE
        /\ purposes' = purposes
        /\ driftAlerts' = driftAlerts
        /\ systemPaused' = systemPaused
        /\ usageEvents' = usageEvents]_vars

\* reached: a paused system with an open alert has rejected a recommit whose
\* overlap with the original intent is 0.5
C10_Witness ==
  /\ ret.op = "recommit"
  /\ ret.result = FALSE
  /\ ret.purposeId \in DOMAIN purposes
  /\ verifyRecommitmentAlignment(purposes[ret.purposeId].originalIntent, ret.statement)
       = Quotient(1, 2)
  /\ systemPaused
  /\ driftAlerts # <<>>


\* C11: an accepted recommit for purpose P removes exactly the open drift
\* alerts of P and resumes the system; the alerts of the other purposes, all
\* usage events and the other purposes' records stay as they were.
C11_RecommitClearsOwnAlerts ==
  [][(ret'.op = "recommit" /\ ret'.result /\ clock' = clock) =>
       LET P == ret'.purposeId
       IN /\ driftAlerts' = SelectSeq(driftAlerts, LAMBDA a : a.purposeId # P)
          /\ systemPaused' = FALSE
          /\ usageEvents' = usageEvents
          /\ DOMAIN purposes' = DOMAIN purposes
          /\ \A q \in DOMAIN purposes : q # P => purposes'[q] = purposes[q]]_vars

\* an accepted recommit of a purpose that had drifted past its check, while the
\* alert of another purpose stays open
C11_Witness ==
  /\ ret.op = "recommit" /\ ret.result
  /\ Len(usageEvents[ret.purposeId]) >= CheckInterval
  /\ Exceeds(calculateDrift(purposes, usageEvents, ret.purposeId).overallDrift, 3, 10)
  /\ driftAlerts # <<>>
  /\ \A i \in DOMAIN driftAlerts : driftAlerts[i].purposeId # ret.purposeId
  /\ ~systemPaused

\* the frames a trackReasoning step has just stored, and the alerts it raised
Tracked == ret'.op = "trackReasoning" /\ Len(frames') = Len(frames) + 1
RaisedAlerts == SubSeq(dominanceAlerts', Len(dominanceAlerts) + 1, Len(dominanceAlerts'))
\* framework fw holds more than a / b of the summed confidenceWeight of fs
ShareAbove(fs, fw, a, b) == WeightOf(fs, fw) * b > a * TotalWeightOf(fs)
ShareIs(fs, fw, a, b) ==
  TotalWeightOf(fs) > 0 /\ WeightOf(fs, fw) * b = a * TotalWeightOf(fs)
AlertsOf(alerts, fw) == SelectSeq(alerts, LAMBDA a : a.framework = fw)

InUnitInterval(x) == ~IsNaN(x) /\ x.den > 0 /\ 0 <= x.num /\ x.num <= x.den
IsOne(x) == x.den > 0 /\ x.num = x.den

\* C16: for every recorded set of frames and every framework f in it,
\* dominance(f) lies in [0, 1], and dominance(f) = 1 if and only if f is the
\* only framework with nonzero summed weight.
C16_DominanceInUnitInterval ==
  \A fw \in Range(FrameworkOrder(frames, {})) :
    LET dominance == dominanceOf(frames, fw)
    IN /\ InUnitInterval(dominance)
       /\ IsOne(dominance) <=>
            /\ WeightOf(frames, fw) # 0
            /\ \A g \in Range(FrameworkOrder(frames, {})) \ {fw} : WeightOf(frames, g) = 0

\* C17: while a framework's dominance stays above the threshold, a further
\* trackReasoning call does not append a second alert for that framework.
C17_RepeatAlertSuppressed ==
  [][Tracked =>
       \A fw \in Frameworks :
         (/\ ShareAbove(frames, fw, 7, 10)
          /\ ShareAbove(frames', fw, 7, 10)
          /\ AlertsOf(dominanceAlerts, fw) # <<>>)
         => AlertsOf(dominanceAlerts', fw) = AlertsOf(dominanceAlerts, fw)]_vars

\* the entries a step has put behind those already queued
Queued ==
  SubSeq(frameworkRotationQueue', Len(frameworkRotationQueue) + 1,
         Len(frameworkRotationQueue'))

\* C18: each dominance alert appends at most two framework names to the
\* rotation queue, never the dominant framework, always at the tail: the
\* entries already queued keep their place and none is removed; a
\* trackReasoning call that raises no alert leaves the queue unchanged.
C18_RotationQueueAppendOnly ==
  [][/\ Len(frameworkRotationQueue') >= Len(frameworkRotationQueue)
     /\ SubSeq(frameworkRotationQueue', 1, Len(frameworkRotationQueue))
          = frameworkRotationQueue
     /\ Tracked =>
          /\ Len(Queued) <= 2 * Len(RaisedAlerts)
          /\ \A j \in DOMAIN Queued :
               Queued[j] # RaisedAlerts[(j + 1) \div 2].framework
     /\ ~Tracked => frameworkRotationQueue' = frameworkRotationQueue]_vars

\* Devil_Lens_Critique was alerted first and Cost_Benefit second, and a third
\* call raised no alert: the queue holds the two pairs in that order
C18_Witness ==
  /\ Len(frames) = 3
  /\ Len(dominanceAlerts) = 2
  /\ dominanceAlerts[1].framework = "Devil_Lens_Critique"
  /\ dominanceAlerts[2].framework = "Cost_Benefit"
  /\ frameworkRotationQueue =
       <<"RSGD_360_Spiral", "Institutional_Decay_Detector",
         "Devil_Lens_Critique", "RSGD_360_Spiral">>

\* the beneficiary a lag alert is about
BeneficiaryOf(alert) == alert.pattern[1]

\* C12: the LOA alert list never holds two alerts for the same beneficiary
\* whose detection times are less than 7 days apart, also when new outcomes of
\* that beneficiary were tracked in between.
C12_OneAlertPerBeneficiaryPerWeek ==
  \A i, j \in DOMAIN lagAlerts :
    (i < j /\ BeneficiaryOf(lagAlerts[i]) = BeneficiaryOf(lagAlerts[j]))
    => (lagAlerts[j].detectedAt - lagAlerts[i].detectedAt) * TickDays >= DedupDays

RECURSIVE RiskSum(_)
RiskSum(outs) == IF outs = <<>> THEN 0 ELSE Head(outs).riskScore + RiskSum(Tail(outs))

\* the alerts a step has appended to lagAlerts
RaisedLagAlerts == SubSeq(lagAlerts', Len(lagAlerts) + 1, Len(lagAlerts'))

\* C13: a LOA pattern alert is raised for a beneficiary only if its running
\* average risk (totalRiskScore / occurrences) is strictly greater than 7 and
\* at least 3 stored outcomes name it, both taken at the time of the check.
C13_PatternAlertThreshold ==
  [][/\ SubSeq(lagAlerts', 1, Len(lagAlerts)) = lagAlerts
     /\ \A i \in DOMAIN RaisedLagAlerts :
          LET b == BeneficiaryOf(RaisedLagAlerts[i])
              pattern == beneficiaryPatterns'[b]
          IN /\ ret'.op = "trackOutcome"
             /\ pattern.totalRiskScore > 7 * pattern.occurrences
             /\ pattern.totalRiskScore = RiskSum(OutcomesOf(outcomes', b))
             /\ Len(OutcomesOf(outcomes', b)) >= 3]_vars

\* eight outcomes of one beneficiary averaged exactly 7 and raised no alert; the
\* ninth lifted the average above 7 and raised the only alert
C13_Witness ==
  /\ Len(outcomes) = 9
  /\ \A i \in DOMAIN outcomes : outcomes[i].beneficiary = "acme"
  /\ RiskSum(SubSeq(outcomes, 1, 8)) = 7 * 8
  /\ RiskSum(outcomes) > 7 * 9
  /\ Len(lagAlerts) = 1
  /\ lagAlerts[1].pattern[2] = 9

\* the patterns of the beneficiaries `names` that the outcomes `outs` add up to
PatternsOf(outs, names) ==
  [b \in names |->
     LET mine == OutcomesOf(outs, b)
     IN [present |-> mine # <<>>, occurrences |-> Len(mine), lagSum |-> SumLag(mine),
         totalRiskScore |-> 0]]

\* the three-part score of the outcome at place i of `outs`, given the ones
\* tracked before it
ThreePartScore(outs, i) ==
  LET earlier == SubSeq(outs, 1, i - 1)
  IN calculateRiskScore(PatternsOf(earlier, {outs[i].beneficiary}), earlier,
                        outs[i].lagDays, outs[i].beneficiary)

\* the rows of lagged_outcomes as outcomes
StoredOutcomes ==
  [i \in DOMAIN lagged_outcomes |->
     [beneficiary |-> lagged_outcomes[i].beneficiary, lagDays |-> lagged_outcomes[i].lag_days]]

\* C14: the risk score assigned to a tracked outcome is the lag-duration score
\* plus the beneficiary-frequency score plus the consistency score, clamped to
\* 10, whether the outcome was tracked by trackOutcome or by
\* POST /api/v2/loa/track-outcome (risk_score is in tenths).
C14_ThreePartRiskScore ==
  /\ \A i \in DOMAIN outcomes :
       outcomes[i].riskScore = ThreePartScore(outcomes, i) /\ outcomes[i].riskScore \in 0..10
  /\ \A i \in DOMAIN lagged_outcomes :
       lagged_outcomes[i].risk_score = 10 * ThreePartScore(StoredOutcomes, i)

\* the frames of the current window: the last 30 decisions together with the
\* frames used within the last 7 days
InWindow(fs, i, now) ==
  i > Len(fs) - 30 \/ fs[i].lastUsed * TickDays > now * TickDays - 7
WindowIndices(fs, now) == {i \in DOMAIN fs : InWindow(fs, i, now)}
RECURSIVE Keep(_, _, _)
Keep(fs, idx, i) ==
  IF i > Len(fs) THEN <<>>
  ELSE (IF i \in idx THEN <<fs[i]>> ELSE <<>>) \o Keep(fs, idx, i + 1)
WindowOf(fs, now) == Keep(fs, WindowIndices(fs, now), 1)

\* C19: dominance is computed over the frames of the current window only: a
\* frame that has aged out of it contributes neither to the dominance alerts
\* of a trackReasoning call nor to the resilience score.
C19_DominanceOverWindow ==
  [][/\ Tracked =>
          \A fw \in Frameworks :
            AlertsOf(RaisedAlerts, fw) # <<>>
              <=> ShareAbove(WindowOf(frames', clock), fw, 7, 10)
     /\ (ret'.op = "rpl.calculateResilience" /\ clock' = clock) =>
          ret'.result = RplResilience(WindowOf(frames, clock))]_vars

\* C20: the entropy gap calculateEntropy reports for a domain is never
\* negative: it is 0 when the current question rate exceeds the historical
\* rate and when the historical rate is 0.
C20_EntropyGapNotNegative ==
  ret.op = "calculateEntropy" =>
    /\ ~Below(ret.result.gapScore, 0, 1)
    /\ Exceeds(ret.result.currentFrequency, ret.result.historicalFrequency.num,
               ret.result.historicalFrequency.den)
         => ret.result.gapScore.num = 0

\* the question counts of a domain in the baseline weeks and the recent weeks
HistoricalCount(registry, domain, now) ==
  CountIn(registry[domain],
          {a \in AskedAts : a < now - 4 * DaysPerWeek /\ a >= now - 12 * DaysPerWeek})
RecentCount(registry, domain, now) ==
  CountIn(registry[domain], {a \in AskedAts : a >= now - 4 * DaysPerWeek})
\* the drop of the weekly rate, (h / 12 - c / 4) / (h / 12), against n / d
GapAbove(registry, domain, now, n, d) ==
  LET h == HistoricalCount(registry, domain, now)
      c == RecentCount(registry, domain, now)
  IN h > 0 /\ d * (h - 3 * c) > n * h
GapIs(registry, domain, now, n, d) ==
  LET h == HistoricalCount(registry, domain, now)
      c == RecentCount(registry, domain, now)
  IN h > 0 /\ d * (h - 3 * c) = n * h

\* the alerts a step has appended to entropyAlerts
RaisedEntropyAlerts == SubSeq(entropyAlerts', Len(entropyAlerts) + 1, Len(entropyAlerts'))

\* C21: an entropy alert is raised only for a gap strictly greater than 0.50;
\* its severity is HIGH exactly when the gap is greater than 0.75, and an
\* alert for a gap of 0.6 has severity MEDIUM.
C21_EntropyAlertSeverity ==
  [][/\ SubSeq(entropyAlerts', 1, Len(entropyAlerts)) = entropyAlerts
     /\ \A i \in DOMAIN RaisedEntropyAlerts :
          LET alert == RaisedEntropyAlerts[i]
          IN /\ ret'.op = "registerQuestion"
             /\ GapAbove(questionRegistry', alert.domain, Now, 1, 2)
             /\ alert.riskLevel = "HIGH"
                  <=> GapAbove(questionRegistry', alert.domain, Now, 3, 4)
             /\ GapIs(questionRegistry', alert.domain, Now, 6, 10)
                  => alert.riskLevel = "MEDIUM"]_vars

\* the tier and the cooldown hours that go with a fatigue score
TierOf(score) ==
  IF score >= 9 THEN "critical"
  ELSE IF score >= 7 THEN "high"
  ELSE IF score >= 4 THEN "medium"
  ELSE "low"
HoursOf(score) == IF score >= 9 THEN 72 ELSE IF score >= 7 THEN 48 ELSE 24
MsPerHour == 60 * MsPerMinute

\* this step is an updateObserverLoad call of the index
Updated == ret'.op = "updateObserverLoad" /\ observers' # observers
\* this step is the upsert of the update-load request in slot r
Upserts(r) ==
  /\ req[r].pc = "insert" /\ req[r].route = "oli/update-load"
  /\ req'[r].pc = "idle" /\ resp'.status = 200
\* the fatigue score of the load a request reports, no break being on record
ReportedScore(body) ==
  FatigueScoreOf(body.auditsReviewed, body.correctionRate, body.contradictionExposure,
                 DefaultHoursSinceBreak)

\* C22: an observer-load update that yields a fatigue score of 9 or more
\* leaves the observer at tier critical and installs a cooldown in the same
\* step; below 9 the tier is high from 7, medium from 4 and low otherwise.
\* Stated for updateObserverLoad and for POST /api/v2/oli/update-load.
C22_CriticalTierCooldown ==
  [][/\ Updated =>
          LET o == ret'.observerId
              score == calculateFatigueScore(o, observers'[o])
          IN /\ observers'[o].fatigueRisk = TierOf(score)
             /\ score >= 9 =>
                  /\ Len(cooldownQueue') = Len(cooldownQueue) + 1
                  /\ cooldownQueue'[Len(cooldownQueue')].observerId = o
     /\ \A r \in Slots : Upserts(r) =>
          LET body == req[r].body
              row == observer_metrics'[body.observerId]
          IN /\ row.fatigue_risk = TierOf(ReportedScore(body))
             /\ ReportedScore(body) >= 9 => row.cooldown_until # NULL]_vars

\* the cooldown entries a step has appended to cooldownQueue
InstalledCooldowns == SubSeq(cooldownQueue', Len(cooldownQueue) + 1, Len(cooldownQueue'))

\* C23: every cooldown installed lasts 72 hours for a fatigue score of 9 or
\* more, 48 hours for 7 or 8 and 24 hours otherwise; the load auditsReviewed =
\* 25, correctionRate = 0.55, contradictionExposure = 0.75 scores 10 and gets a
\* 72-hour cooldown. Stated for updateObserverLoad and for
\* POST /api/v2/oli/update-load.
C23_CooldownDuration ==
  [][/\ SubSeq(cooldownQueue', 1, Len(cooldownQueue)) = cooldownQueue
     /\ \A i \in DOMAIN InstalledCooldowns :
          LET entry == InstalledCooldowns[i]
          IN /\ Updated
             /\ entry.duration =
                  HoursOf(calculateFatigueScore(entry.observerId,
                                                observers'[entry.observerId]))
     /\ Updated =>
          LET m == observers'[ret'.observerId]
          IN (m.auditsReviewed = 25 /\ m.correctionRate = 55 /\ m.contradictionExposure = 75)
             => /\ Len(InstalledCooldowns) = 1
                /\ InstalledCooldowns[1].duration = 72
     /\ \A r \in Slots : Upserts(r) =>
          LET body == req[r].body
              row == observer_metrics'[body.observerId]
          IN /\ row.cooldown_until # NULL =>
                  \E now \in Instants :
                    /\ now <= clock
                    /\ row.cooldown_until = now + HoursOf(ReportedScore(body)) * MsPerHour
             /\ (body.auditsReviewed = 25 /\ body.correctionRate = 55
                 /\ body.contradictionExposure = 75)
                => row.cooldown_until # NULL]_vars

\* an entry of the cooldown queue that has not expired at the layer's clock
Unexpired(entry) ==
  clock * TickDays * HoursPerDay <= entry.startTime * TickDays * HoursPerDay + entry.duration

\* C24: the cooldown queue never holds two unexpired entries of the same
\* observer.
C24_OneActiveCooldownPerObserver ==
  \A i, j \in DOMAIN cooldownQueue :
    (i < j /\ cooldownQueue[i].observerId = cooldownQueue[j].observerId)
    => ~(Unexpired(cooldownQueue[i]) /\ Unexpired(cooldownQueue[j]))

\* ------------------------------------------------------------------- C25
\* the purpose is not registered or has fewer than 10 usage events recorded
Sparse(ps, evs, purposeId) == purposeId \notin DOMAIN ps \/ Len(evs[purposeId]) < 10

\* C25: calculateDrift for a purpose with fewer than 10 recorded usage events,
\* or for an id that was never registered, returns overallDrift 0 and trend
\* STABLE, and a trackUsage call that leaves its purpose in that case adds no
\* drift alert and does not pause the system.
C25_SparsePurposeIsStable ==
  [][/\ (ret'.op = "calculateDrift" /\ ret' # ret
          /\ Sparse(purposes, usageEvents, ret'.purposeId)) =>
         /\ ret'.result.overallDrift = Quotient(0, 1)
         /\ ret'.result.trend = "STABLE"
     /\ (ret'.op = "trackUsage" /\ usageEvents' # usageEvents
          /\ Sparse(purposes', usageEvents', ret'.purposeId)) =>
         /\ driftAlerts' = driftAlerts
         /\ systemPaused' = systemPaused
         /\ calculateDrift(purposes', usageEvents', ret'.purposeId).overallDrift
              = Quotient(0, 1)
         /\ calculateDrift(purposes', usageEvents', ret'.purposeId).trend = "STABLE"]_vars

\* calculateDrift has answered for a registered purpose with nine events whose
\* words share only half of the intent's keywords, and the unregistered id has
\* reached its tenth event without alert
C25_Witness ==
  \/ /\ ret.op = "calculateDrift" /\ ret.purposeId \in DOMAIN purposes
     /\ Len(usageEvents[ret.purposeId]) = 9
     /\ purposes[ret.purposeId].originalIntent = <<"Fair", "Audit">>
     /\ ret.result.trend = "STABLE"
  \/ /\ ret.op = "trackUsage" /\ ret.purposeId = UnknownId
     /\ Len(usageEvents[UnknownId]) = 10 /\ driftAlerts = <<>>

\* GET /api/v2/pds/drift-status of a registered purpose with fewer than 10
\* usage_events rows answers drift_magnitude 0 and drift_detected false
C25_DriftStatusOfSparsePurpose ==
  (resp.route = "pds/drift-status" /\ resp.status = 200
   /\ resp.result.event_count < 10) =>
     /\ resp.result.drift_magnitude = 0
     /\ ~resp.result.drift_detected

\* ------------------------------------------------------------------- C26
\* C26: a calculator without weight to work on returns its neutral value: while
\* the recorded frames have a total confidence weight of 0 the dominance of
\* every framework is 0 and no dominance alert exists, and the resilience of a
\* layer without frames is 100.
C26_NeutralWithoutWeight ==
  /\ TotalWeightOf(frames) = 0 =>
       /\ \A i \in DOMAIN frames :
            LET dominance == dominanceOf(frames, frames[i].framework)
            IN ~IsNaN(dominance) /\ dominance.num = 0
       /\ dominanceAlerts = <<>>
  /\ (ret.op = "rpl.calculateResilience" /\ frames = <<>>) => ret.result = 100

\* the neutral values of the routes: a dominance share of 0 for every framework
\* when the selected frames weigh 0, and scores of 100 without a stored row
C26_NeutralReads ==
  /\ (resp.route = "rpl/dominance" /\ resp.status = 200
      /\ resp.result.total_weight = 0) =>
        \A fw \in DOMAIN resp.result.dominance :
          resp.result.dominance[fw].percentage = Quotient(0, 1)
  /\ (resp.route = "resilience/score" /\ resp.status = 200
      /\ resilience_scores = <<>>) => resp.result = DefaultScores

\* ------------------------------------------------------------------- C27
\* two answers of one read route, the second given right after the first
Reread(route) ==
  /\ resp.route = route /\ resp.status = 200
  /\ resp'.route = route /\ resp'.status = 200

\* C27: a metric read twice on unchanged rows is the same both times: the
\* dominance report, the resilience scores and the drift status of a purpose
\* do not differ between two consecutive reads with no row written in between.
C27_RereadIsIdentical ==
  [][/\ (Reread("rpl/dominance") /\ reasoning_frames' = reasoning_frames) =>
         resp'.result = resp.result
     /\ (Reread("resilience/score") /\ resilience_scores' = resilience_scores) =>
         resp'.result = resp.result
     /\ (Reread("pds/drift-status") /\ usage_events' = usage_events
          /\ resp'.result.purpose_id = resp.result.purpose_id) =>
         resp'.result = resp.result]_vars

\* ------------------------------------------------------------------- C28
\* every alert of `before` is still in `after`, at its place
Kept(before, after) ==
  Len(after) >= Len(before) /\ SubSeq(after, 1, Len(before)) = before

\* C28: no step removes or resolves an alert by recomputing a metric or by
\* recording an event: the alert lists of the layers only grow and the rows of
\* drift_alerts stay as they are, the drift alerts of one purpose leaving only
\* by an accepted recommit of that purpose.
C28_AlertsStayUntilResolved ==
  [][/\ Kept(dominanceAlerts, dominanceAlerts')
     /\ Kept(entropyAlerts, entropyAlerts')
     /\ Kept(lagAlerts, lagAlerts')
     /\ Kept(loadAlerts, loadAlerts')
     /\ drift_alerts' = drift_alerts
     /\ \/ Kept(driftAlerts, driftAlerts')
        \/ /\ ret'.op = "recommit" /\ ret'.result
           /\ driftAlerts' = SelectSeq(driftAlerts,
                                       LAMBDA a : a.purposeId # ret'.purposeId)]_vars

\* an alert of a framework is on the list while the dominance of the framework
\* is back at 70% or below
C28_Witness ==
  \E i \in DOMAIN dominanceAlerts :
    /\ ~IsNaN(dominanceOf(frames, dominanceAlerts[i].framework))
    /\ ~Exceeds(dominanceOf(frames, dominanceAlerts[i].framework), 7, 10)

\* ------------------------------------------------------------------- C29
\* C29: every recorded usage event belongs to a registered purpose: the
\* sentinel holds events only under ids of registered purposes, and every row
\* of usage_events carries the id of a row of system_purposes.
C29_UsageEventsOfRegisteredPurposes ==
  /\ \A id \in DOMAIN usageEvents : usageEvents[id] # <<>> => id \in DOMAIN purposes
  /\ \A i \in DOMAIN usage_events :
       \E j \in DOMAIN system_purposes : system_purposes[j].id = usage_events[i].purpose_id

\* ------------------------------------------------------------------- C30
\* C30: no stored outcome has its benefit before its decision: every outcome of
\* the layer and every row of lagged_outcomes has a lag of 0 days or more, and
\* the lag sum of a beneficiary pattern is never negative.
C30_LagNeverNegative ==
  /\ \A i \in DOMAIN outcomes : outcomes[i].lagDays >= 0
  /\ \A b \in Beneficiaries : beneficiaryPatterns[b].lagSum >= 0
  /\ \A i \in DOMAIN lagged_outcomes : lagged_outcomes[i].lag_days >= 0

\* ------------------------------------------------------------------- C31
\* C31: the resilience score a layer reports is in 0..100: the scores of the
\* RPL, QEM, LOA and OLI layers and the score of the PDS layer, which is a
\* number.
C31_LayerResilienceInRange ==
  /\ ret.op \in {"rpl.calculateResilience", "qem.calculateResilience",
                 "loa.calculateResilience", "oli.calculateResilience"} =>
       ret.result \in 0..100
  /\ ret.op = "pds.calculateResilience" =>
       ret.result.kind = "number" /\ ret.result.val \in 0..100

\* ------------------------------------------------------------------- C32
\* the sum of five layer scores
SumOf(scores) == scores[1] + scores[2] + scores[3] + scores[4] + scores[5]

OneAppended(before, after) == Len(after) = Len(before) + 1 /\ Kept(before, after)

\* questions registered over all domains
RegisteredQuestions(registry) ==
  LET Count[ds \in SUBSET QemDomains] ==
        IF ds = {} THEN 0
        ELSE LET d == CHOOSE x \in ds : TRUE
             IN QuestionCount(registry[d]) + Count[ds \ {d}]
  IN Count[QemDomains]

AuditBucket(auditsReviewed) ==
  IF auditsReviewed > 20 THEN 3 ELSE IF auditsReviewed > 10 THEN 2
  ELSE IF auditsReviewed > 5 THEN 1 ELSE 0
CorrectionBucket(correctionRate) ==
  IF correctionRate > 50 THEN 3 ELSE IF correctionRate > 25 THEN 2
  ELSE IF correctionRate > 10 THEN 1 ELSE 0
ContradictionBucket(contradictionExposure) ==
  IF contradictionExposure > 70 THEN 2 ELSE IF contradictionExposure > 40 THEN 1 ELSE 0
BreakBucket(hoursSinceBreak) ==
  IF hoursSinceBreak > 48 THEN 2 ELSE IF hoursSinceBreak > 24 THEN 1 ELSE 0
BucketSum(auditsReviewed, correctionRate, contradictionExposure) ==
  AuditBucket(auditsReviewed) + CorrectionBucket(correctionRate)
  + ContradictionBucket(contradictionExposure) + BreakBucket(DefaultHoursSinceBreak)

\* C34: the fatigue score of an observer is the sum of the four bucketed
\* sub-scores (audit volume, correction-rate stress, contradiction exposure,
\* hours since the last break with 72 hours when none is on record) and is an
\* integer in 0..10, in updateObserverLoad and in POST /api/v2/oli/update-load
\* (whose score, kept in thousandths, is compared with 1000 times the sum).
C34_FatigueScoreIsBucketSum ==
  [][/\ Updated =>
          LET o == ret'.observerId
              m == observers'[o]
              score == calculateFatigueScore(o, m)
          IN /\ score \in 0..10
             /\ score = BucketSum(m.auditsReviewed, m.correctionRate, m.contradictionExposure)
     /\ \A r \in Slots : Upserts(r) =>
          LET body == req[r].body
          IN /\ ApiFatigueScore(body) \in {1000 * k : k \in 0..10}
             /\ ApiFatigueScore(body) =
                  1000 * BucketSum(body.auditsReviewed, body.correctionRate,
                                   body.contradictionExposure)]_vars

\* C35: every drift calculateDrift reports is a defined number in [0,1], also
\* for a purpose with 10 or more events whose declared intent has no word
\* longer than 3 characters (each event then contributes divergence 0), and
\* the PDS resilience score computed from the drifts is a number.
C35_DriftIsDefined ==
  /\ ret.op = "calculateDrift" =>
       /\ InUnitInterval(ret.result.semanticDivergence)
       /\ InUnitInterval(ret.result.overallDrift)
       /\ ret.result.trend \in {"STABLE", "DRIFTING", "CRITICAL"}
  /\ ret.op = "pds.calculateResilience" => ret.result # NaNScore

\* the entropy gap calculateEntropy reports for the domain is above 50 percent
GapOverThreshold(domain) ==
  Exceeds(calculateEntropy(questionRegistry, domain, Now).gapScore, 50, 1)
HasEntropyAlert(domain) == \E i \in DOMAIN entropyAlerts : entropyAlerts[i].domain = domain

UsageTracked == ret'.op = "trackUsage" /\ usageEvents' # usageEvents
OpenAlertOf(alerts, purposeId) == \E i \in DOMAIN alerts : alerts[i].purposeId = purposeId

\* C37: when a trackUsage call returns, a purpose whose calculateDrift reports
\* an overallDrift above 0.3 has an open drift alert, and the system is paused
\* if the drift is above 0.5, whatever the number of events of the purpose.
C37_DriftAlertAfterEveryEvent ==
  [][UsageTracked =>
       LET purposeId == ret'.purposeId
           metrics == calculateDrift(purposes', usageEvents', purposeId)
       IN /\ Exceeds(metrics.overallDrift, 3, 10) => OpenAlertOf(driftAlerts', purposeId)
          /\ Exceeds(metrics.overallDrift, 5, 10) => systemPaused']_vars

\* some purpose has an open drift alert whose action is PAUSE_SYSTEM
PauseAlertOpen == \E i \in DOMAIN driftAlerts : driftAlerts[i].action = "PAUSE_SYSTEM"

\* C38: the system is paused if and only if some purpose has an open drift
\* alert with action PAUSE_SYSTEM; so after purpose A has caused a pause, an
\* accepted recommit for purpose B leaves the system paused while A's alert
\* is open.
C38_PausedIffPauseAlertOpen == systemPaused <=> PauseAlertOpen

\* the highest risk score the k-th outcome of a beneficiary can get
HighestScoreAt(k) ==
  IF k <= 2 THEN 4 ELSE IF k = 3 THEN 7 ELSE IF k <= 6 THEN 8 ELSE IF k <= 11 THEN 9 ELSE 10

====
